---------------------------- MODULE Spec2Model ----------------------------
(***************************************************************************)
(* Model of the Lennox iComfort Homebridge plugin's command path:          *)
(*   - LennoxClient.publishCommand  (src/src/api/lennoxClient.ts)          *)
(*   - LennoxiComfortAccessory.updateSetpoints (src/unnamed/part_002)      *)
(* An await in the TypeScript source is a point where another handler may  *)
(* run; the code between two awaits is one atomic action.                  *)
(***************************************************************************)
EXTENDS Integers, Sequences, FiniteSets, TLC

(* ------------------------------ bounds -------------------------------- *)

\* Largest value of the `retries` argument explored for publishCommand.
MaxRetries == 4

\* Number of updateSetpoints invocations issued against one accessory.
NumCalls == 2

(* ------------------------- program constants -------------------------- *)

\* publishCommand(message, retries = 3)
DefaultRetries == 3

\* for (let i = 0; i < 50 && this.updateInProgress; i++)
MaxPolls == 50

\* getManualModeScheduleId / getOverrideScheduleId offsets
ManualBase == 16

OverrideBase == 32

\* const zoneId = 0; // Primary zone
PrimaryZoneId == 0

\* value standing for `null` in `number | null` fields
Null == -1

(* --------------------- publishCommand: data types --------------------- *)

Last(seq) == seq[Len(seq)]

\* What one `await this.api.post(...)` can produce.
\*   kind "data"    : HTTP 2xx with a PublishCommandResponse body
\*   kind "http"    : axios error carrying error.response (status outside 2xx)
\*   kind "network" : axios error without error.response
DataOutcome(c, r) == [kind |-> "data", code |-> c, retry_after |-> r, status |-> 200]

HttpOutcome(s) == [kind |-> "http", code |-> 0, retry_after |-> 0, status |-> s]

NetworkOutcome == [kind |-> "network", code |-> 0, retry_after |-> 0, status |-> 0]

PostOutcomes ==
    {DataOutcome(c, r) : c \in {0, 1, 2}, r \in {0, 5}}
      \cup {HttpOutcome(s) : s \in {400, 401, 404, 500, 503}}
      \cup {NetworkOutcome}

\* Error values. `attempt` is the loop index at which the error was created.
NoError == [type |-> "none", attempt |-> 0, code |-> 0, status |-> 0]

\* new Error(`Command failed with code ${code}: ...`)
CommandFailed(a, o) == [type |-> "command", attempt |-> a, code |-> o.code, status |-> 0]

\* the axios error object caught at line 360
AxiosError(a, o) ==
    [type |-> IF o.kind = "http" THEN "axios-http" ELSE "axios-network",
     attempt |-> a, code |-> 0, status |-> o.status]

\* new Error(`Failed to publish command: ${status} ${statusText}...`)
PublishFailed(a, status) == [type |-> "publish", attempt |-> a, code |-> 0, status |-> status]

\* new Error('Failed to publish command after retries')
AfterRetries == [type |-> "after-retries", attempt |-> 0, code |-> 0, status |-> 0]

\* new Error('User token is required. Call login() first to obtain it.')
TokenRequired == [type |-> "token", attempt |-> 0, code |-> 0, status |-> 0]

NoResponse == [kind |-> "none", code |-> 0, retry_after |-> 0, status |-> 0]

\* The state of one publishCommand call.
\*   phase : "new" not yet called, "post" awaiting api.post, "backoff"
\*           awaiting the setTimeout, "returned", "thrown"
\*   delay : the delay of the backoff timer last started (0: none yet)
NewCall(retries) ==
    [retries |-> retries, attempt |-> 0, phase |-> "new", lastError |-> NoError,
     response |-> NoResponse, error |-> NoError, delay |-> 0]

(* --------------------- publishCommand: the code ----------------------- *)

\* Faulty variant: the loop admits one attempt more than `retries`.
LoopConditionOffByOne(attempt, retries) == attempt <= retries + 1

\* for (...; attempt <= retries; ...)
LoopCondition(attempt, retries) == attempt <= retries

\* if (response.data.code !== 1) throw ...
IsSuccessCode(code) == code = 1

\* if (status === 401 || status === 400) throw ...
IsNoRetryStatus(status) == status = 401 \/ status = 400

\* Faulty variant: every error status, not only 5xx, is retried.
RetryAnyErrorStatus(attempt, retries, status) == attempt < retries /\ status >= 400

\* if (attempt < retries && status >= 500)
RetryServerError(attempt, retries, status) == attempt < retries /\ status >= 500

\* if (attempt < retries)   -- "Network error - retry"
RetryNoResponse(attempt, retries) == attempt < retries

\* setTimeout(resolve, 1000 * attempt)
BackoffDelay(attempt) == 1000 * attempt

\* throw lastError || new Error('Failed to publish command after retries')
FinalError(lastError) == IF lastError = NoError THEN AfterRetries ELSE lastError

\* Faulty variant: only the first caught error is remembered.
RememberFirstError(lastError, error) == IF lastError = NoError THEN error ELSE lastError

\* catch (error) { lastError = error; ...
RememberError(lastError, error) == error

Throw(st, e) == [st EXCEPT !.phase = "thrown", !.error = e]

\* Top of the for loop with `attempt` already set: either the next post is
\* issued, or the loop ends and line 393 throws.
LoopTop(st) ==
    IF LoopCondition(st.attempt, st.retries)
    THEN [st EXCEPT !.phase = "post"]
    ELSE Throw(st, FinalError(st.lastError))

\* await new Promise(resolve => setTimeout(resolve, 1000 * attempt)); continue;
Backoff(st) ==
    [st EXCEPT !.phase = "backoff", !.delay = BackoffDelay(st.attempt)]

\* The catch block, lines 360-390, for the caught error `e`; hasResponse is
\* the truth of `error.response`.
Catch(st, e, hasResponse) ==
    LET st1 == [st EXCEPT !.lastError = RememberError(@, e)] IN
    IF hasResponse
    THEN IF IsNoRetryStatus(e.status)
         THEN Throw(st1, PublishFailed(st.attempt, e.status))
         ELSE IF RetryServerError(st.attempt, st.retries, e.status)
              THEN Backoff(st1)
              ELSE Throw(st1, PublishFailed(st.attempt, e.status))
    ELSE IF RetryNoResponse(st.attempt, st.retries)
         THEN Backoff(st1)
         \* falls out of the catch block: attempt++ and the loop test
         ELSE LoopTop([st1 EXCEPT !.attempt = @ + 1])

\* Lines 322-337: the token check, then the first pass through the loop.
PublishStart(st, hasToken) ==
    IF ~hasToken
    THEN Throw(st, TokenRequired)
    ELSE LoopTop([st EXCEPT !.attempt = 1])

\* Lines 339-390: the post of the current attempt completes with outcome o.
PublishReceive(st, o) ==
    IF o.kind = "data"
    THEN IF ~IsSuccessCode(o.code)
         \* thrown inside the try block, so caught by its own catch;
         \* a plain Error has no `response` property
         THEN Catch(st, CommandFailed(st.attempt, o), FALSE)
         ELSE [st EXCEPT !.phase = "returned", !.response = o]
    ELSE Catch(st, AxiosError(st.attempt, o), o.kind = "http")

\* The backoff timer fires: `continue` runs attempt++ and the loop test.
PublishResume(st) == LoopTop([st EXCEPT !.attempt = @ + 1])

(* ----------------- updateSetpoints: pure helpers ---------------------- *)

\* private getManualModeScheduleId(zoneId)
getManualModeScheduleId(zoneId) == ManualBase + zoneId

\* private getOverrideScheduleId(zoneId)
getOverrideScheduleId(zoneId) == OverrideBase + zoneId

\* Faulty variant: the manual schedule id of the primary zone is taken
\* for that of every zone.
isZoneManualModeOfPrimary(zoneId, currentScheduleId) ==
    IF currentScheduleId = Null
    THEN FALSE
    ELSE currentScheduleId = getManualModeScheduleId(PrimaryZoneId)

\* private isZoneManualMode(zoneId, currentScheduleId)
isZoneManualMode(zoneId, currentScheduleId) ==
    IF currentScheduleId = Null
    THEN FALSE
    ELSE currentScheduleId = getManualModeScheduleId(zoneId)

\* private isZoneOverride(zoneId, currentScheduleId)
isZoneOverride(zoneId, currentScheduleId) ==
    IF currentScheduleId = Null
    THEN FALSE
    ELSE currentScheduleId = getOverrideScheduleId(zoneId)

\* Faulty variant: the override schedule is targeted in every mode.
TargetOverrideAlways(zoneId, currentScheduleId) ==
    getOverrideScheduleId(zoneId)

\* Lines 556-573: the schedule id the commands target.
TargetScheduleId(zoneId, currentScheduleId) ==
    IF isZoneManualMode(zoneId, currentScheduleId)
    THEN getManualModeScheduleId(zoneId)
    ELSE getOverrideScheduleId(zoneId)

\* Faulty variant: a hold follows unless the zone is in manual mode.
HoldUnlessManual(zoneId, currentScheduleId) ==
    ~isZoneManualMode(zoneId, currentScheduleId)

\* Lines 556-573: whether a hold command follows the schedule command.
NeedsHold(zoneId, currentScheduleId) ==
    /\ ~isZoneManualMode(zoneId, currentScheduleId)
    /\ ~isZoneOverride(zoneId, currentScheduleId)

(* ------------------------------ state --------------------------------- *)

\* The updateSetpoints invocations issued by the setters of one accessory.
Calls == 1..NumCalls

\* The argument tuples (hsp, csp, systemMode) the invocations are issued
\* with; two invocations with the same tuple are the identical request.
UpdateRequests ==
    {[hsp |-> 68, csp |-> 72, systemMode |-> "heat and cool"],
     [hsp |-> 70, csp |-> 72, systemMode |-> "heat"]}

\* The arguments of an invocation that has not been issued yet.
NoRequest == [hsp |-> 0, csp |-> 0, systemMode |-> "off"]

\* What a post made on behalf of updateSetpoints can produce.
UpdateOutcomes ==
    {DataOutcome(1, 0), DataOutcome(0, 5), HttpOutcome(400), HttpOutcome(500),
     NetworkOutcome}

(* ---------------- numbers of the setpoint arithmetic ------------------ *)

\* A JavaScript number that may have a fractional part, kept exactly as the
\* fraction n / d with d > 0.  One-decimal Celsius values are carried in
\* the commands as their number of tenths.
Rat(n, d) == [n |-> n, d |-> d]

Whole(k) == Rat(k, 1)

Tenths(k) == Rat(k, 10)

Plus(a, b) ==
    IF a.d = b.d
    THEN Rat(a.n + b.n, a.d)
    ELSE Rat(a.n * b.d + b.n * a.d, a.d * b.d)

Minus(a, b) == Plus(a, Rat(-b.n, b.d))

\* a * k and a / k for an integer k > 0
Times(a, k) == Rat(a.n * k, a.d)

Over(a, k) == Rat(a.n, a.d * k)

AtMost(a, b) == a.n * b.d <= b.n * a.d

Same(a, b) == a.n * b.d = b.n * a.d

Distance(a, b) ==
    IF AtMost(a, b) THEN Minus(b, a) ELSE Minus(a, b)

\* Math.round(x): the nearest integer, a half rounded up.
MathRound(x) == (2 * x.n + x.d) \div (2 * x.d)

\* parseFloat(x.toFixed(1)), in tenths: the nearest tenth, a half rounded
\* away from zero.
toFixed1(x) ==
    IF x.n >= 0
    THEN MathRound(Times(x, 10))
    ELSE 0 - MathRound(Times(Rat(0 - x.n, x.d), 10))

VARIABLES
    call,               \* the publishCommand call studied on its own
    callToken,          \* whether an Authorization header is set for it
    received,           \* history: the outcome of every post of that call
    updateInProgress,   \* this.updateInProgress
    currentZoneScheduleId, \* this.currentZoneScheduleId (Null = null)
    pc,                 \* per invocation: the await it is suspended at
    i,                  \* per invocation: the loop variable of the wait loop
    request,            \* per invocation: its arguments
    pub,                \* per invocation: its current publishCommand call
    locals,             \* per invocation: needsHold, targetScheduleId
    outcome,            \* per invocation: how its promise settled
    hist,               \* per invocation: history of what it went through
    log,                \* every message given to publishCommand, in order
    nextMessageId,      \* stands for the next value of uuidv4()
    zone,               \* a zone id and a schedule id to be classified
    zoneMode,           \* the classification of that pair
    cmdPc,              \* how far one setTargetTemperature request has got
    setter,             \* the request: HomeKit value, thermostat state, telemetry
    args,               \* the arguments it gives to updateSetpoints
    commands,           \* the commands updateSetpoints builds from them
    payload,            \* a telemetry payload given to a resolver
    resolved,           \* what the resolver made of it
    fields,             \* the thermostat state the accessory shows
    currentStartTime,   \* this.currentStartTime (Null = null)
    senderId,           \* this.senderId
    lastPositiveSsp,    \* history: the last positive ssp given to updateStatus
    messages,           \* the messages given to the Retrieve resolver
    temperatureUnit,    \* config.temperatureUnit ("" = not configured)
    retrieved,          \* what the Retrieve resolver made of them
    platPc,             \* how far the platform has got since Homebridge loaded it
    config,             \* the platform's configuration
    isLocalConnection,  \* this.isLocalConnection
    accessories,        \* this.accessories
    accessoryHandlers,  \* the keys of this.accessoryHandlers
    systems,            \* discoverDevices: the systems still to register
    restored,           \* history: the UUIDs Homebridge restored from its cache
    registered,         \* history: every UUID given to registerPlatformAccessories
    unregistered,       \* history: every UUID given to unregisterPlatformAccessories
    system,             \* this.system of the accessory: its status.substatuses
    setPc,              \* how far the setter HomeKit called last has got
    setCall,            \* that setter, its value, and what it found on entry
    dispatched,         \* what that setter gave to updateSetpoints
    latest,             \* history: the substatuses last given to updateStatus
    pollingInterval,    \* this.pollingInterval is set (the timer is running)
    shutDown,           \* history: the shutdown event has been handled
    pollRuns,           \* history: the number of pollSystems runs started
    tokenData,          \* AuthManager: this.tokenData
    tokenFile,          \* AuthManager: the content of tokens.json
    authNow,            \* Date.now() / 1000
    authPc,             \* AuthManager: the await login() is suspended at
    authResult          \* history: the last call made of AuthManager, its result

pubVars == <<call, callToken, received>>

updVars == <<updateInProgress, currentZoneScheduleId, pc, i, request, pub,
             locals, outcome, hist, log, nextMessageId>>

\* The variables of the invocations of updateSetpoints.
invVars == <<pc, i, request, pub, locals, outcome, hist, log, nextMessageId>>

zoneVars == <<zone, zoneMode>>

cmdVars == <<cmdPc, setter, args, commands>>

resVars == <<payload, resolved>>

\* The variables of the studies of the pure functions.
pureVars == <<zoneVars, cmdVars, resVars>>

\* The fields of the accessory that telemetry keeps up to date.
accVars == <<fields, currentStartTime, senderId, lastPositiveSsp>>

retVars == <<messages, temperatureUnit, retrieved>>

platVars == <<platPc, config, isLocalConnection, accessories,
              accessoryHandlers, systems, restored, registered, unregistered>>

\* The setters of the accessory.
setVars == <<system, setPc, setCall, dispatched, latest>>

\* The polling of the platform.
pollVars == <<pollingInterval, shutDown, pollRuns>>

\* The AuthManager.
authVars == <<tokenData, tokenFile, authNow, authPc, authResult>>

extVars == <<setVars, pollVars, authVars>>

restVars == <<accVars, retVars, platVars, extVars>>

vars == <<pubVars, updVars, pureVars, restVars>>

\* No publishCommand call is running for the invocation.
NoCall == NewCall(DefaultRetries)

NoLocals == [needsHold |-> FALSE, targetScheduleId |-> 0, startTime |-> 0]

\* History kept for the properties; the code has no such fields.
\*   blockedBy : the invocations past acquisition when this one was invoked
\*   acquired  : the invocation set updateInProgress = true
\*   abandoned : the invocation returned at line 524
\*   accepted  : publishCommand returned for the schedule command
\*   settled   : the 500 ms settle delay was awaited
\*   posted    : the body of every post made, with the command it is for
\*   startTimeOnEntry : the start time a schedule command built at the
\*               moment of the invocation would carry
NoHistory ==
    [blockedBy |-> {}, acquired |-> FALSE, abandoned |-> FALSE,
     accepted |-> FALSE, settled |-> FALSE, posted |-> {},
     startTimeOnEntry |-> 0]

\* The accessory as constructed, no publishCommand call under study.
PublishIdle ==
    /\ call = NewCall(0)
    /\ callToken = TRUE
    /\ received = << >>

\* The accessory as constructed (field initialisers, lines 32-34), no
\* updateSetpoints invocation issued yet.
UpdateIdle ==
    /\ updateInProgress = FALSE
    /\ currentZoneScheduleId = Null
    /\ pc = [p \in Calls |-> "idle"]
    /\ i = [p \in Calls |-> 0]
    /\ pub = [p \in Calls |-> NoCall]
    /\ locals = [p \in Calls |-> NoLocals]
    /\ outcome = [p \in Calls |-> "pending"]
    /\ hist = [p \in Calls |-> NoHistory]
    /\ log = << >>
    /\ nextMessageId = 1

\* No pair of a zone id and a schedule id is under classification.
NoZone == [zoneId |-> PrimaryZoneId, scheduleId |-> Null]

NoZoneMode == [classified |-> FALSE, manual |-> FALSE, override |-> FALSE]

ZoneIdle ==
    /\ zone = NoZone
    /\ zoneMode = NoZoneMode

\* No setTargetTemperature request is under study.
NoSetter == [present |-> FALSE]

NoArgs == [called |-> FALSE]

NoCommands == [built |-> FALSE]

CommandIdle ==
    /\ cmdPc = "idle"
    /\ setter = NoSetter
    /\ args = NoArgs
    /\ commands = NoCommands

\* No telemetry payload is being resolved.
NoPayload == [t |-> "none"]

NotResolved == [done |-> FALSE]

ResolveIdle ==
    /\ payload = NoPayload
    /\ resolved = NotResolved

\* The accessory's thermostat state as its field initialisers leave it, for
\* an accessory given a fan service at construction (line 95).
InitialFields ==
    [currentTemperature |-> Whole(20),
     targetTemperature |-> Whole(20),
     targetHeatingCoolingState |-> 0,
     currentHeatingCoolingState |-> 0,
     coolingThresholdTemperature |-> Whole(25),
     heatingThresholdTemperature |-> Whole(20),
     currentRelativeHumidity |-> Whole(0),
     temperatureDisplayUnits |-> 0,
     fanActive |-> FALSE,
     fanRotationSpeed |-> 0,
     fanService |-> TRUE]

\* this.senderId = `mapp${Date.now()}_${username || 'user'}`, for an
\* accessory constructed at the instant 1500 with no username configured.
ConstructedSenderId == "mapp1500_user"

\* The accessory before any telemetry has reached it.
AccessoryIdle ==
    /\ fields = InitialFields
    /\ currentStartTime = Null
    /\ senderId = ConstructedSenderId
    /\ lastPositiveSsp = Null

\* No messages are given to the Retrieve resolver.
RetrieveIdle ==
    /\ messages = << >>
    /\ temperatureUnit = ""
    /\ retrieved = NotResolved

\* A configuration that sets nothing.
NoConfig == [connectionMode |-> "", thermostatIP |-> "", credentials |-> FALSE]

\* The platform is not constructed yet.
PlatformIdle ==
    /\ platPc = "new"
    /\ config = NoConfig
    /\ isLocalConnection = FALSE
    /\ accessories = << >>
    /\ accessoryHandlers = {}
    /\ systems = << >>
    /\ restored = {}
    /\ registered = << >>
    /\ unregistered = << >>

\* No setter has been called.
NoSetCall == [name |-> ""]

NotDispatched == [called |-> FALSE]

\* HomeKit calls no setter of the accessory.
SetterIdle ==
    /\ system = << >>
    /\ setPc = "idle"
    /\ setCall = NoSetCall
    /\ dispatched = NotDispatched
    /\ latest = << >>

\* No polling has been started.
PollingIdle ==
    /\ pollingInterval = FALSE
    /\ shutDown = FALSE
    /\ pollRuns = 0

\* this.tokenData is null
NoTokenData == [held |-> FALSE]

\* tokens.json does not exist
NoFile == [exists |-> FALSE]

NoAuthResult == [op |-> "none"]

\* No AuthManager is constructed.
AuthIdle ==
    /\ tokenData = NoTokenData
    /\ tokenFile = NoFile
    /\ authNow = 0
    /\ authPc = "idle"
    /\ authResult = NoAuthResult

ExtIdle == SetterIdle /\ PollingIdle /\ AuthIdle

RestIdle == AccessoryIdle /\ RetrieveIdle /\ PlatformIdle /\ ExtIdle

(* --------------- specification of one publishCommand call ------------- *)

PublishInit ==
    /\ call \in {NewCall(r) : r \in 0..MaxRetries}
    /\ callToken \in BOOLEAN
    /\ received = << >>
    /\ UpdateIdle
    /\ RestIdle
    /\ request = [p \in Calls |-> NoRequest]
    /\ ZoneIdle
    /\ CommandIdle
    /\ ResolveIdle

PublishCall ==
    /\ call.phase = "new"
    /\ call' = PublishStart(call, callToken)
    /\ UNCHANGED <<callToken, received, updVars, pureVars, restVars>>

PublishResponse ==
    /\ call.phase = "post"
    /\ \E o \in PostOutcomes :
         /\ call' = PublishReceive(call, o)
         /\ received' = Append(received, o)
    /\ UNCHANGED <<callToken, updVars, pureVars, restVars>>

PublishBackoffDone ==
    /\ call.phase = "backoff"
    /\ call' = PublishResume(call)
    /\ UNCHANGED <<callToken, received, updVars, pureVars, restVars>>

PublishNext == PublishCall \/ PublishResponse \/ PublishBackoffDone

SpecPublish == PublishInit /\ [][PublishNext]_vars

(* ------------- specification of concurrent updateSetpoints ------------ *)

\* The invocations that are past the acquisition of the flag and have not
\* yet run the finally block.
InFlight == {p \in Calls : pc[p] \in {"schedule", "settle", "hold", "finish"}}

\* Faulty variant: the wait loop has no ceiling.
WaitConditionNoCeiling(n, inProgress) == inProgress

\* for (let i = 0; i < 50 && this.updateInProgress; i++)
WaitCondition(n, inProgress) == n < MaxPolls /\ inProgress

\* Faulty variant: the flag is not consulted on entry.
NeverWait(inProgress) == FALSE

\* Line 516: whether an invocation has to wait before it may acquire.
MustWait(inProgress) == inProgress

\* Faulty variant: the check after the wait loop is missing.
NeverStillBusy(inProgress) == FALSE

\* Line 522: after the wait loop, whether the invocation gives up.
StillBusy(inProgress) == inProgress

\* Faulty variant: the flag is left as it is when the invocation ends.
FlagKept(inProgress) == inProgress

\* finally { this.updateInProgress = false; }
ReleasedFlag(inProgress) == FALSE

\* Faulty variant: the catch block around the schedule publish logs the exception
\* and goes on.
NextStepSwallowing(cmd, phase, code, needsHold) ==
    IF phase = "thrown"
    THEN IF cmd = "schedule" /\ needsHold THEN "settle" ELSE "throw"
    ELSE IF phase = "returned"
    THEN IF code # 1
         THEN "throw"
         ELSE IF cmd = "schedule" /\ needsHold THEN "settle" ELSE "finish"
    ELSE "stay"

\* Lines 649-726: where the invocation goes when the publishCommand call of
\* command cmd has reached `phase` (code: the code of the returned response).
\*   "throw"  : the exception is rethrown (lines 654-657, 707-710), or the
\*              response is refused (lines 660-664, 713-717)
\*   "settle" : await the 500 ms before the hold command (line 671)
\*   "finish" : await the final 1000 ms (line 726)
\*   "stay"   : publishCommand has not ended yet
NextStep(cmd, phase, code, needsHold) ==
    IF phase = "thrown"
    THEN "throw"
    ELSE IF phase = "returned"
    THEN IF code # 1
         THEN "throw"
         ELSE IF cmd = "schedule" /\ needsHold THEN "settle" ELSE "finish"
    ELSE "stay"

\* What the caller of an abandoned invocation gets: line 524 is a plain
\* `return`, so the promise resolves.
AbandonOutcome == "resolved"

\* The schedule start of a thermostat whose telemetry has given none.
FallbackStartTime == 25200

\* Line 602: this.currentStartTime || 25200
StartTime(current) ==
    IF current # Null /\ current # 0 THEN current ELSE FallbackStartTime

\* this.systemId = system.extId (line 41), the TargetID of every message
SystemId == "extId"

\* Lines 638-644 and 691-697: the message of command cmd of invocation p.
\* Its Data is kept as the command's kind, the schedule id it names and,
\* for a schedule command, the startTime of its period.
LogEntry(p, cmd, id) ==
    [call |-> p, cmd |-> cmd, SenderID |-> senderId,
     MessageID |-> nextMessageId, TargetID |-> SystemId, scheduleId |-> id,
     startTime |-> IF cmd = "schedule" THEN StartTime(currentStartTime) ELSE Null]

\* Faulty variant: every attempt posts the message under a new MessageID.
PostedMessageRenumbered(message, attempt) ==
    [message EXCEPT !.MessageID = @ + MaxRetries * attempt]

\* lennoxClient.ts lines 339-341: the body of the post of an attempt.
PostedMessage(message, attempt) == message

\* The message invocation p has given to publishCommand for command cmd.
MessageOf(p, cmd) ==
    log[CHOOSE k \in DOMAIN log : log[k].call = p /\ log[k].cmd = cmd]

Posted(h, cmd, message, attempt) ==
    [h EXCEPT !.posted = @ \cup {[cmd |-> cmd,
                                  body |-> PostedMessage(message, attempt)]}]

\* The invocation ends by an exception: catch (rethrow), then finally.
UpdThrow(p) ==
    /\ pub' = [pub EXCEPT ![p] = NoCall]
    /\ pc' = [pc EXCEPT ![p] = "done"]
    /\ outcome' = [outcome EXCEPT ![p] = "rejected"]
    /\ updateInProgress' = ReleasedFlag(updateInProgress)

\* Lines 638-651 and 691-704: a message with a fresh MessageID is built and
\* given to publishCommand, which runs up to its first await.
UpdPublish(p, cmd, id, h) ==
    LET st == PublishStart(NewCall(DefaultRetries), TRUE) IN
    /\ nextMessageId' = nextMessageId + 1
    /\ IF st.phase = "post"
       THEN /\ log' = Append(log, LogEntry(p, cmd, id))
            /\ pub' = [pub EXCEPT ![p] = st]
            /\ pc' = [pc EXCEPT ![p] = cmd]
            /\ updateInProgress' = TRUE
            /\ UNCHANGED outcome
       ELSE /\ UpdThrow(p)
            /\ UNCHANGED log
    /\ hist' = [hist EXCEPT ![p] =
                  IF st.phase = "post"
                  THEN Posted(h, cmd, LogEntry(p, cmd, id), st.attempt)
                  ELSE h]

\* Lines 528-651: the flag is taken and the invocation runs up to its first
\* await. zoneOk is the truth of getPrimaryZoneData(systemToUse).
Acquire(p, zoneOk, h) ==
    LET h1 == [h EXCEPT !.acquired = TRUE]
        nh == NeedsHold(PrimaryZoneId, currentZoneScheduleId)
        id == TargetScheduleId(PrimaryZoneId, currentZoneScheduleId)
    IN  IF ~zoneOk
        THEN \* throw new Error('No zone data available'), then finally
             /\ UpdThrow(p)
             /\ hist' = [hist EXCEPT ![p] = h1]
             /\ UNCHANGED <<locals, log, nextMessageId>>
        ELSE /\ locals' = [locals EXCEPT ![p] =
                              [needsHold |-> nh, targetScheduleId |-> id,
                               startTime |-> StartTime(currentStartTime)]]
             /\ UpdPublish(p, "schedule", id, h1)

\* Line 524: return without having done anything.
Abandon(p, h) ==
    /\ pc' = [pc EXCEPT ![p] = "done"]
    /\ outcome' = [outcome EXCEPT ![p] = AbandonOutcome]
    /\ hist' = [hist EXCEPT ![p] = [h EXCEPT !.abandoned = TRUE]]
    /\ UNCHANGED <<updateInProgress, pub, locals, log, nextMessageId>>

\* Lines 519-520: one more sleep of the wait loop is started.
Sleep(p, h) ==
    /\ pc' = [pc EXCEPT ![p] = "waiting"]
    /\ hist' = [hist EXCEPT ![p] = h]
    /\ UNCHANGED <<updateInProgress, pub, locals, outcome, log, nextMessageId>>

\* Lines 519-528 from the loop test on, with loop variable n. The loop
\* variable goes out of scope when the loop is left for the acquisition.
WaitLoop(p, n, zoneOk, h) ==
    IF WaitCondition(n, updateInProgress)
    THEN /\ i' = [i EXCEPT ![p] = n]
         /\ Sleep(p, h)
    ELSE IF StillBusy(updateInProgress)
         THEN /\ i' = [i EXCEPT ![p] = n]
              /\ Abandon(p, h)
         ELSE /\ i' = [i EXCEPT ![p] = 0]
              /\ Acquire(p, zoneOk, h)

\* A setter invokes updateSetpoints(hsp, csp, systemMode, ...).
\* Invocations are numbered in the order in which they are issued.
UpdCall(p) ==
    /\ pc[p] = "idle"
    /\ \A q \in Calls : q < p => pc[q] # "idle"
    /\ \E r \in UpdateRequests : request' = [request EXCEPT ![p] = r]
    /\ \E zoneOk \in BOOLEAN :
         LET h == [hist[p] EXCEPT
                      !.blockedBy = InFlight,
                      !.startTimeOnEntry =
                          IF currentStartTime \in {Null, 0}
                          THEN 25200 ELSE currentStartTime] IN
         IF MustWait(updateInProgress)
         THEN WaitLoop(p, 0, zoneOk, h)
         ELSE /\ Acquire(p, zoneOk, h)
              /\ UNCHANGED i
    /\ UNCHANGED <<pubVars, pureVars, restVars, currentZoneScheduleId>>

\* The 100 ms timer of the wait loop fires: i++ and the loop test.
UpdPoll(p) ==
    /\ pc[p] = "waiting"
    /\ \E zoneOk \in BOOLEAN : WaitLoop(p, i[p] + 1, zoneOk, hist[p])
    /\ UNCHANGED <<pubVars, pureVars, restVars, currentZoneScheduleId, request>>

\* publishCommand of invocation p has moved to state st: the invocation
\* goes on from its await at line 651 or 704.
UpdAfterPublish(p, st) ==
    LET step == NextStep(pc[p], st.phase, st.response.code, locals[p].needsHold)
        ok == st.phase = "returned" /\ st.response.code = 1
        h == IF st.phase = "post" /\ st.attempt # pub[p].attempt
             THEN Posted(hist[p], pc[p], MessageOf(p, pc[p]), st.attempt)
             ELSE hist[p]
    IN  /\ hist' = [hist EXCEPT ![p] =
                      IF pc[p] = "schedule" /\ ok
                      THEN [h EXCEPT !.accepted = TRUE] ELSE h]
        /\ IF step = "throw"
           THEN UpdThrow(p)
           ELSE IF step = "stay"
           THEN \* backoff, or the next post of the same message
                /\ pub' = [pub EXCEPT ![p] = st]
                /\ UNCHANGED <<updateInProgress, pc, outcome>>
           ELSE /\ pub' = [pub EXCEPT ![p] = NoCall]
                /\ pc' = [pc EXCEPT ![p] = step]
                /\ UNCHANGED <<updateInProgress, outcome>>
        /\ UNCHANGED <<locals, log, nextMessageId>>

\* The post of the schedule or hold command completes.
UpdResponse(p) ==
    /\ pc[p] \in {"schedule", "hold"}
    /\ pub[p].phase = "post"
    /\ \E o \in UpdateOutcomes : UpdAfterPublish(p, PublishReceive(pub[p], o))
    /\ UNCHANGED <<pubVars, pureVars, restVars, currentZoneScheduleId, request, i>>

\* The backoff timer of publishCommand fires.
UpdBackoffDone(p) ==
    /\ pc[p] \in {"schedule", "hold"}
    /\ pub[p].phase = "backoff"
    /\ UpdAfterPublish(p, PublishResume(pub[p]))
    /\ UNCHANGED <<pubVars, pureVars, restVars, currentZoneScheduleId, request, i>>

\* Line 671: the 500 ms settle delay is over; lines 674-704 build and
\* publish the hold command.
UpdSettleDone(p) ==
    /\ pc[p] = "settle"
    /\ UpdPublish(p, "hold", locals[p].targetScheduleId,
                  [hist[p] EXCEPT !.settled = TRUE])
    /\ UNCHANGED <<pubVars, pureVars, restVars, currentZoneScheduleId, request, i,
                   locals>>

\* Line 726: the final 1000 ms delay is over; then finally.
UpdFinish(p) ==
    /\ pc[p] = "finish"
    /\ pc' = [pc EXCEPT ![p] = "done"]
    /\ outcome' = [outcome EXCEPT ![p] = "resolved"]
    /\ updateInProgress' = ReleasedFlag(updateInProgress)
    /\ UNCHANGED <<pubVars, pureVars, restVars, currentZoneScheduleId, request, i, pub,
                   locals, hist, log, nextMessageId>>

UpdateInit ==
    /\ PublishIdle
    /\ UpdateIdle
    /\ RestIdle
    /\ request = [p \in Calls |-> NoRequest]
    /\ ZoneIdle
    /\ CommandIdle
    /\ ResolveIdle

UpdateNext ==
    \E p \in Calls :
        \/ UpdCall(p)
        \/ UpdPoll(p)
        \/ UpdResponse(p)
        \/ UpdBackoffDone(p)
        \/ UpdSettleDone(p)
        \/ UpdFinish(p)

SpecUpdate == UpdateInit /\ [][UpdateNext]_vars

\* The timers fire and every post completes (axios timeout: 30000).
FairSpecUpdate ==
    /\ SpecUpdate
    /\ \A p \in Calls :
         /\ WF_vars(UpdPoll(p))
         /\ WF_vars(UpdResponse(p))
         /\ WF_vars(UpdBackoffDone(p))
         /\ WF_vars(UpdSettleDone(p))
         /\ WF_vars(UpdFinish(p))

(* ------------------- claims about publishCommand ---------------------- *)

\* A transport-level failure: no response at all, or an HTTP status >= 500.
IsTransportFailure(o) == o.kind = "network" \/ (o.kind = "http" /\ o.status >= 500)

\* A protocol rejection: a response body whose code is not 1.
IsRejection(o) == o.kind = "data" /\ o.code # 1

\* An HTTP client error: a response with a status below 500.
IsClientError(o) == o.kind = "http" /\ o.status < 500

AllTransportFailures(seq) == \A k \in 1..Len(seq) : IsTransportFailure(seq[k])

\* C1: in publishCommand a response whose code is not 1 is terminal: it is
\* the last attempt of the call (no publish attempt or backoff follows it,
\* whatever retry_after is) and the call has failed to its caller.
C1_RejectionIsTerminal ==
    \A k \in 1..Len(received) :
        IsRejection(received[k]) =>
            /\ k = Len(received)
            /\ call.phase = "thrown"

\* C6: publishCommand never makes more than `retries` publish attempts, and
\* a transport failure (network error, HTTP status >= 500) received on a
\* non-final attempt is followed by a backoff and then by another attempt.
C6_BoundedTransportRetry ==
    /\ [](Len(received) <= call.retries)
    /\ [][(/\ call.phase = "post"
           /\ Len(received') = Len(received) + 1
           /\ IsTransportFailure(Last(received'))
           /\ call.attempt < call.retries)
          => call'.phase = "backoff"]_vars
    /\ [][call.phase = "backoff"
          => (call'.phase = "post" /\ call'.attempt = call.attempt + 1)]_vars

\* C6 witness: a call with the default bound whose three attempts were all
\* made, the first two having failed at transport level.
C6_Witness ==
    /\ call.retries = DefaultRetries
    /\ Len(received) = DefaultRetries
    /\ received[1] = NetworkOutcome
    /\ received[2] = HttpOutcome(503)

\* C7: an HTTP client-error response (400, 401 or any other status below
\* 500) ends publishCommand at once with an error carrying that status: it
\* is the last attempt of the call whatever the remaining retry budget.
C7_ClientErrorIsTerminal ==
    \A k \in 1..Len(received) :
        IsClientError(received[k]) =>
            /\ k = Len(received)
            /\ call.phase = "thrown"
            /\ call.error = PublishFailed(k, received[k].status)

\* C7 witness: a 404 on the first of three allowed attempts ended the call.
C7_Witness ==
    /\ call.retries = DefaultRetries
    /\ received = <<HttpOutcome(404)>>
    /\ call.phase = "thrown"

\* C8: when every attempt of a call failed at transport level and the retry
\* budget is used up, the call has thrown an error derived from the last
\* attempt's failure; and the call returns a response only if the attempt
\* that ended it received code 1.
C8_ExhaustionSurfacesLastError ==
    /\ (/\ Len(received) >= 1
        /\ Len(received) = call.retries
        /\ AllTransportFailures(received))
       => /\ call.phase = "thrown"
          /\ call.error.attempt = Len(received)
          /\ call.error.status = Last(received).status
          /\ call.error.type =
               IF Last(received).kind = "network"
               THEN "axios-network" ELSE "publish"
    /\ (call.phase = "thrown" /\ Len(received) >= 1
        /\ AllTransportFailures(received))
       => Len(received) = call.retries
    /\ (call.phase = "returned" \/ call.response # NoResponse)
       => /\ call.phase = "returned"
          /\ Len(received) >= 1
          /\ Last(received).kind = "data"
          /\ Last(received).code = 1
          /\ call.response = Last(received)

\* C8 witness: three transport failures, differing between the first and the
\* last attempt, after which the call has thrown.
C8_Witness ==
    /\ call.phase = "thrown"
    /\ received = <<HttpOutcome(500), HttpOutcome(503), NetworkOutcome>>

\* C31: the backoff is exponential whatever the retry bound: each backoff
\* timer after the first of a call is started with twice the delay of the
\* timer before it.
C31_BackoffDoubles ==
    [][ (call.phase = "post" /\ call'.phase = "backoff" /\ call.delay > 0)
        => call'.delay = 2 * call.delay ]_vars

(* ------------------- claims about updateSetpoints --------------------- *)

\* The positions in the log of the messages invocation p gave to
\* publishCommand.
Dispatched(p) == {k \in 1..Len(log) : log[k].call = p}

\* C2: for one accessory at most one updateSetpoints invocation is between
\* the acquisition of updateInProgress and its release, and the commands of
\* two invocations are never interleaved: the commands of one invocation
\* are consecutive in the order of dispatch.
C2_OneUpdateInFlight ==
    /\ Cardinality(InFlight) <= 1
    /\ \A a, b, c \in 1..Len(log) :
         (a < b /\ b < c /\ log[a].call = log[c].call) => log[b].call = log[a].call

\* C2 witness: the second invocation found the first in flight, waited, and
\* is now itself in flight with its hold command, after the first
\* dispatched both of its commands.
C2_Witness ==
    /\ hist[2].blockedBy = {1}
    /\ pc[2] = "hold"
    /\ Cardinality(Dispatched(1)) = 2

\* C3 (as claimed): when the identical request is issued while the first is
\* in flight, the second invocation never dispatches a command of its own.
C3_SecondNeverDispatches ==
    \A q \in Calls : \A p \in hist[q].blockedBy :
        request[p] = request[q] => Dispatched(q) = {}

\* C3 (amended): an invocation that found another one in flight dispatches
\* nothing if it is abandoned, and otherwise dispatches its own commands
\* only once the invocation it found in flight has ended and released the
\* flag, all of that invocation's commands preceding its own.
C3_SecondWaitsOrIsAbandoned ==
    \A q \in Calls : \A p \in hist[q].blockedBy :
        /\ hist[q].abandoned => Dispatched(q) = {}
        /\ Dispatched(q) # {} =>
             /\ pc[p] = "done"
             /\ \A a \in Dispatched(p), b \in Dispatched(q) : a < b

\* C3 witness: the identical request was issued while the first was in
\* flight, and both invocations dispatched a schedule and a hold command.
C3_Witness ==
    /\ hist[2].blockedBy = {1}
    /\ request[1] = request[2]
    /\ Cardinality(Dispatched(1)) = 2
    /\ Cardinality(Dispatched(2)) = 2

\* C4: an invocation that could not acquire the flag within the wait
\* ceiling ends with an error delivered to its caller and dispatches no
\* command.
C4_AbandonedIsAnError ==
    \A p \in Calls :
        hist[p].abandoned => (outcome[p] = "rejected" /\ Dispatched(p) = {})

\* C5: whenever no invocation is past its acquisition, updateInProgress is
\* false: the flag is released on every exit path of an invocation that
\* acquired it.
C5_FlagReleasedOnEveryExit ==
    InFlight = {} => updateInProgress = FALSE

\* C5 witness: one invocation ended by an exception of its schedule
\* command, the other by an exception of its hold command, and the flag is
\* free.
C5_Witness ==
    /\ \A p \in Calls : pc[p] = "done" /\ hist[p].acquired /\ outcome[p] = "rejected"
    /\ Cardinality(Dispatched(1)) = 1
    /\ Cardinality(Dispatched(2)) = 2
    /\ updateInProgress = FALSE

\* C9: within one run the hold command is given to publishCommand only when
\* the run was awaiting its settle delay, which it does only after the
\* schedule command of the same run was accepted; a run whose schedule
\* command was not accepted dispatches no hold command.
C9_HoldAfterAcceptedSchedule ==
    /\ [](\A p \in Calls :
            /\ pc[p] \in {"settle", "hold"} => hist[p].accepted
            /\ \A k \in Dispatched(p) :
                 log[k].cmd = "hold" =>
                    /\ hist[p].accepted
                    /\ hist[p].settled
                    /\ \E j \in Dispatched(p) : j < k /\ log[j].cmd = "schedule")
    /\ [][\A p \in Calls :
            (Len(log') = Len(log) + 1 /\ Last(log').call = p /\ Last(log').cmd = "hold")
              => pc[p] = "settle"]_vars

\* C9 witness: one run, whose schedule command was accepted, is publishing
\* its hold command after another run ended by the failure of its schedule
\* command, having dispatched nothing else.
C9_Witness ==
    \E p \in Calls :
        /\ pc[p] = "hold"
        /\ hist[p].accepted
        /\ Cardinality(Dispatched(p)) = 2
        /\ \E q \in Calls : q # p /\ outcome[q] = "rejected"
                            /\ Cardinality(Dispatched(q)) = 1

\* C10: a waiting invocation sleeps at most 50 times; when the flag is seen
\* released or after the 50th sleep it leaves the wait loop, and every
\* invocation that was issued eventually ends.
C10_BoundedWaitAndTermination ==
    /\ [](\A p \in Calls :
            /\ i[p] <= MaxPolls
            /\ pc[p] = "waiting" => i[p] < MaxPolls)
    /\ \A p \in Calls : (pc[p] # "idle") ~> (pc[p] = "done")

\* C10 witness: an invocation was abandoned after its 50th sleep.
C10_Witness ==
    \E p \in Calls : hist[p].abandoned /\ i[p] = MaxPolls /\ pc[p] = "done"

(* ------------- specification of the zone mode classification --------- *)

\* The zone ids classified: 0..MaxZoneId.
MaxZoneId == 3

ZoneIds == 0..MaxZoneId

\* The known schedule ids drawn: enough to hold the manual and the override
\* schedule of every zone, the ids below them and one above.
ScheduleIds == 0..(getOverrideScheduleId(MaxZoneId) + 1)

\* this.currentZoneScheduleId: number | null
CurrentScheduleIds == ScheduleIds \cup {Null}

ZoneModeInit ==
    /\ zone \in [zoneId : ZoneIds, scheduleId : CurrentScheduleIds]
    /\ zoneMode = NoZoneMode
    /\ PublishIdle
    /\ UpdateIdle
    /\ RestIdle
    /\ request = [p \in Calls |-> NoRequest]
    /\ CommandIdle
    /\ ResolveIdle

\* isZoneManualMode(zoneId) and isZoneOverride(zoneId) are asked about the
\* pair.
ClassifyZone ==
    /\ ~zoneMode.classified
    /\ zoneMode' =
         [classified |-> TRUE,
          manual |-> isZoneManualMode(zone.zoneId, zone.scheduleId),
          override |-> isZoneOverride(zone.zoneId, zone.scheduleId)]
    /\ UNCHANGED <<pubVars, updVars, restVars, zone, cmdVars, resVars>>

ZoneModeNext == ClassifyZone

SpecZoneMode == ZoneModeInit /\ [][ZoneModeNext]_vars

(* ------------------ claims about the zone mode ------------------------ *)

\* C12: for every zone id z >= 0 and every known schedule id s, the zone is
\* classified Manual exactly when s = 16 + z and Override exactly when
\* s = 32 + z (FollowingSchedule is neither), and never both at once.
C12_ZoneModeClassification ==
    zoneMode.classified =>
        /\ zone.scheduleId # Null =>
              /\ zoneMode.manual <=> (zone.scheduleId = 16 + zone.zoneId)
              /\ zoneMode.override <=> (zone.scheduleId = 32 + zone.zoneId)
        /\ ~(zoneMode.manual /\ zoneMode.override)

\* C12 witness: a zone other than the primary one is classified Manual.
C12_Witness ==
    /\ zoneMode.classified
    /\ zone.zoneId = 2
    /\ zone.scheduleId = 18
    /\ zoneMode.manual
    /\ ~zoneMode.override

(* ----------------------- unit conversions ---------------------------- *)

\* Faulty variant: the factor of the conversion is inverted.
fahrenheitToCelsiusInverted(f) == Over(Times(Minus(f, Whole(32)), 9), 5)

\* private fahrenheitToCelsius(f): (f - 32) * 5 / 9
fahrenheitToCelsius(f) == Over(Times(Minus(f, Whole(32)), 5), 9)

\* private celsiusToFahrenheit(c): (c * 9 / 5) + 32
celsiusToFahrenheit(c) == Plus(Over(Times(c, 9), 5), Whole(32))

(* --------------- setTargetTemperature and the builder ----------------- *)

\* private mapOpModeToSystemMode(opMode)
mapOpModeToSystemMode(opMode) ==
    CASE opMode = "hc" -> "heat and cool"
      [] opMode = "heat" -> "heat"
      [] opMode = "cool" -> "cool"
      [] OTHER -> "off"

\* Line 312: const gap = isFahrenheit ? 3 : 1.5
Gap(isFahrenheit) == IF isFahrenheit THEN Whole(3) ELSE Rat(3, 2)

\* Lines 299-320: the arguments setTargetTemperature gives to
\* updateSetpoints; none when the thermostat is off.
SetterArgs(st) ==
    LET isFahrenheit == st.dispUnits = "F"
        targetTemp == IF isFahrenheit
                      THEN celsiusToFahrenheit(st.value)
                      ELSE st.value
        systemMode == mapOpModeToSystemMode(st.opMode)
        gap == Gap(isFahrenheit)
    IN  CASE st.state = 1 ->
               [called |-> TRUE, hsp |-> targetTemp, csp |-> Whole(st.csp),
                systemMode |-> systemMode]
          [] st.state = 2 ->
               [called |-> TRUE, hsp |-> Whole(st.hsp), csp |-> targetTemp,
                systemMode |-> systemMode]
          [] st.state = 3 ->
               [called |-> TRUE, hsp |-> Minus(targetTemp, gap),
                csp |-> Plus(targetTemp, gap), systemMode |-> systemMode]
          [] OTHER -> NoArgs

\* Lines 579-580: hspF, cspF
ToFahrenheit(value, isFahrenheit) ==
    IF isFahrenheit THEN value ELSE celsiusToFahrenheit(value)

\* Lines 581-582: hspC, cspC
ToCelsius(value, isFahrenheit) ==
    IF isFahrenheit THEN fahrenheitToCelsius(value) ELSE value

\* Faulty variant: the heating and the cooling branch are exchanged.
SetpointFExchanged(hspF, cspF, systemMode) ==
    IF systemMode = "heat and cool"
    THEN MathRound(Over(Plus(hspF, cspF), 2))
    ELSE IF systemMode = "heat" THEN MathRound(cspF) ELSE MathRound(hspF)

\* Line 587: spF
SetpointF(hspF, cspF, systemMode) ==
    IF systemMode = "heat and cool"
    THEN MathRound(Over(Plus(hspF, cspF), 2))
    ELSE IF systemMode = "heat" THEN MathRound(hspF) ELSE MathRound(cspF)

\* Line 588: spC
SetpointC(hspC, cspC, systemMode) ==
    IF systemMode = "heat and cool"
    THEN toFixed1(Over(Plus(hspC, cspC), 2))
    ELSE IF systemMode = "heat" THEN toFixed1(hspC) ELSE toFixed1(cspC)

\* Lines 596-629: the period of the schedule command.
Period(hsp, csp, systemMode, isFahrenheit) ==
    LET hspF == ToFahrenheit(hsp, isFahrenheit)
        cspF == ToFahrenheit(csp, isFahrenheit)
        hspC == ToCelsius(hsp, isFahrenheit)
        cspC == ToCelsius(csp, isFahrenheit)
        spF == SetpointF(hspF, cspF, systemMode)
        spC == SetpointC(hspC, cspC, systemMode)
    IN  [desp |-> 55,
         hsp |-> MathRound(hspF),
         cspC |-> toFixed1(cspC),
         sp |-> MathRound(Whole(spF)),
         husp |-> 40,
         humidityMode |-> "off",
         systemMode |-> systemMode,
         spC |-> spC,
         hspC |-> toFixed1(hspC),
         csp |-> MathRound(cspF)]

\* Lines 609-636: scheduleCommand (its one schedule, its one period).
ScheduleCommand(hsp, csp, systemMode, isFahrenheit, targetScheduleId) ==
    [id |-> targetScheduleId,
     periodId |-> 0,
     period |-> Period(hsp, csp, systemMode, isFahrenheit)]

\* No hold command is built (needsHold is false).
NoHold == [present |-> FALSE]

\* Faulty variant: a hold that expires at a time, of another schedule.
ZoneHoldCommandTimed(targetScheduleId, zoneId) ==
    [present |-> TRUE,
     id |-> zoneId,
     scheduleId |-> getManualModeScheduleId(zoneId),
     exceptionType |-> "hold",
     enabled |-> TRUE,
     expiresOn |-> "86400",
     expirationMode |-> "timed"]

\* Lines 674-689: zoneHoldCommand (its one zone).
ZoneHoldCommand(targetScheduleId, zoneId) ==
    [present |-> TRUE,
     id |-> zoneId,
     scheduleId |-> targetScheduleId,
     exceptionType |-> "hold",
     enabled |-> TRUE,
     expiresOn |-> "0",
     expirationMode |-> "nextPeriod"]

\* Lines 547-697: the commands updateSetpoints builds for the primary zone
\* when this.currentZoneScheduleId is currentScheduleId.
Commands(a, isFahrenheit, currentScheduleId) ==
    LET zoneId == PrimaryZoneId
        targetScheduleId == TargetScheduleId(zoneId, currentScheduleId)
    IN  [built |-> TRUE,
         schedule |-> ScheduleCommand(a.hsp, a.csp, a.systemMode, isFahrenheit,
                                      targetScheduleId),
         hold |-> IF NeedsHold(zoneId, currentScheduleId)
                  THEN ZoneHoldCommand(targetScheduleId, zoneId)
                  ELSE NoHold]

(* ---------- specification of one setTargetTemperature request --------- *)

\* The values HomeKit requests, in Celsius.
TargetTemperatures == {Tenths(k) : k \in {100, 187, 214, 225, 380}}

\* userData.hsp and userData.csp of the telemetry, by the numbers
\* parseFloat reads from them.
TelemetrySetpoints == {[hsp |-> 68, csp |-> 72], [hsp |-> 70, csp |-> 75]}

\* The requests: the value, this.targetHeatingCoolingState, the telemetry
\* of the primary zone, and the value of this.currentZoneScheduleId the
\* builder is applied to.
SetterRequests ==
    {[present |-> TRUE, value |-> v, state |-> st, dispUnits |-> u,
      hsp |-> sp.hsp, csp |-> sp.csp, opMode |-> m, scheduleId |-> id] :
        v \in TargetTemperatures, st \in 0..3, u \in {"F", "C"},
        sp \in TelemetrySetpoints, m \in {"off", "heat", "cool", "hc"},
        id \in CurrentScheduleIds}

CommandInit ==
    /\ cmdPc = "requested"
    /\ setter \in SetterRequests
    /\ args = NoArgs
    /\ commands = NoCommands
    /\ PublishIdle
    /\ UpdateIdle
    /\ RestIdle
    /\ request = [p \in Calls |-> NoRequest]
    /\ ZoneIdle
    /\ ResolveIdle

\* Lines 272-320: setTargetTemperature up to its call of updateSetpoints.
SetTargetTemperature ==
    /\ cmdPc = "requested"
    /\ args' = SetterArgs(setter)
    /\ cmdPc' = IF args'.called THEN "called" ELSE "returned"
    /\ UNCHANGED <<pubVars, updVars, restVars, zoneVars, setter, commands, resVars>>

\* Lines 547-697: updateSetpoints builds its commands.
BuildCommands ==
    /\ cmdPc = "called"
    /\ commands' = Commands(args, setter.dispUnits = "F", setter.scheduleId)
    /\ cmdPc' = "built"
    /\ UNCHANGED <<pubVars, updVars, restVars, zoneVars, setter, args, resVars>>

CommandNext == SetTargetTemperature \/ BuildCommands

SpecCommand == CommandInit /\ [][CommandNext]_vars

(* ------------------ claims about the built commands ------------------- *)

\* C11: updateSetpoints builds a hold command exactly when the current
\* schedule id is unknown or is neither 16 + zoneId nor 32 + zoneId, with
\* zoneId = 0: none for 16 or 32, one for null and for every other id.
C11_HoldIffFollowingSchedule ==
    commands.built =>
        (commands.hold.present <=>
            \/ setter.scheduleId = Null
            \/ /\ setter.scheduleId # 16 + 0
               /\ setter.scheduleId # 32 + 0)

\* C11 witness: commands were built for a zone already in override mode,
\* without a hold.
C11_Witness ==
    /\ commands.built
    /\ setter.scheduleId = 32
    /\ ~commands.hold.present

\* C13: the schedule command targets schedule 16 + zoneId when the zone is
\* in manual mode and 32 + zoneId when it is in override mode, follows a
\* schedule or its schedule id is unknown (zoneId = 0).
C13_TargetScheduleId ==
    commands.built =>
        commands.schedule.id =
            IF setter.scheduleId # Null /\ setter.scheduleId = 16 + 0
            THEN 16 + 0
            ELSE 32 + 0

\* C13 witness: commands were built for a zone in manual mode and target
\* the manual schedule.
C13_Witness ==
    /\ commands.built
    /\ setter.scheduleId = 16
    /\ commands.schedule.id = 16

\* C14: every hold command carries the schedule id of the schedule command
\* of the same run, addresses zone 0, is enabled, has exception type
\* "hold" and expires at the next period.
C14_HoldCommandShape ==
    (commands.built /\ commands.hold.present) =>
        /\ commands.hold.scheduleId = commands.schedule.id
        /\ commands.hold.id = 0
        /\ commands.hold.enabled
        /\ commands.hold.exceptionType = "hold"
        /\ commands.hold.expirationMode = "nextPeriod"

\* C14 witness: a hold command was built for a zone whose schedule id is
\* unknown.
C14_Witness ==
    /\ commands.built
    /\ commands.hold.present
    /\ setter.scheduleId = Null
    /\ commands.hold.scheduleId = 32

\* C15: for every target temperature requested through
\* setTargetTemperature in Auto mode, the setpoints given to
\* updateSetpoints satisfy cooling - heating = 3 (Fahrenheit) or 1.5
\* (Celsius), and their midpoint is the target in the active unit.
C15_AutoDeadband ==
    (setter.present /\ setter.state = 3 /\ args.called) =>
        LET isFahrenheit == setter.dispUnits = "F"
            target == IF isFahrenheit
                      THEN Plus(Over(Times(setter.value, 9), 5), Whole(32))
                      ELSE setter.value
        IN  /\ Same(Minus(args.csp, args.hsp),
                    IF isFahrenheit THEN Whole(3) ELSE Rat(3, 2))
            /\ Same(Over(Plus(args.hsp, args.csp), 2), target)

\* The integer k is x rounded to the nearest integer, a half rounded up.
IsRoundingOf(k, x) ==
    /\ 2 * k * x.d - x.d <= 2 * x.n
    /\ 2 * x.n < 2 * k * x.d + x.d

\* The setpoints given to updateSetpoints, in Fahrenheit and in Celsius.
GivenF(value) == ToFahrenheit(value, setter.dispUnits = "F")

GivenC(value) == ToCelsius(value, setter.dispUnits = "F")

\* C16: sp and spC of the schedule command are the rounded average of the
\* heating and the cooling setpoint (Fahrenheit to an integer, Celsius to
\* one decimal) in mode "heat and cool", the heating setpoint in mode
\* "heat" and the cooling setpoint in mode "cool".
C16_SetpointFollowsMode ==
    commands.built =>
        LET p == commands.schedule.period
            meanF == Over(Plus(GivenF(args.hsp), GivenF(args.csp)), 2)
            meanC == Over(Plus(GivenC(args.hsp), GivenC(args.csp)), 2)
        IN  /\ p.systemMode = "heat and cool" =>
                  /\ IsRoundingOf(p.sp, meanF)
                  /\ IsRoundingOf(p.spC, Times(meanC, 10))
            /\ p.systemMode = "heat" =>
                  /\ p.sp = p.hsp /\ IsRoundingOf(p.sp, GivenF(args.hsp))
                  /\ p.spC = p.hspC
                  /\ IsRoundingOf(p.spC, Times(GivenC(args.hsp), 10))
            /\ p.systemMode = "cool" =>
                  /\ p.sp = p.csp /\ IsRoundingOf(p.sp, GivenF(args.csp))
                  /\ p.spC = p.cspC
                  /\ IsRoundingOf(p.spC, Times(GivenC(args.csp), 10))

\* C16 witness: a command in mode "heat and cool" whose sp is neither of
\* its setpoints, and a Celsius request at that.
C16_Witness ==
    /\ commands.built
    /\ setter.dispUnits = "C"
    /\ commands.schedule.period.systemMode = "heat and cool"
    /\ commands.schedule.period.sp # commands.schedule.period.hsp
    /\ commands.schedule.period.sp # commands.schedule.period.csp

\* The command fields f (Fahrenheit, an integer) and c (Celsius, tenths)
\* are the temperature x given in the active unit: the field of the active
\* unit is x rounded, and the field of the other unit lies within half a
\* unit of its last digit of the temperature that satisfies
\* 9 * Celsius = 5 * (Fahrenheit - 32).
CarriesBothUnits(x, f, c) ==
    IF setter.dispUnits = "F"
    THEN /\ IsRoundingOf(f, x)
         /\ AtMost(Distance(Times(Tenths(c), 9), Times(Minus(x, Whole(32)), 5)),
                   Rat(45, 100))
    ELSE /\ IsRoundingOf(c, Times(x, 10))
         /\ AtMost(Distance(Times(Whole(f), 5), Plus(Times(x, 9), Whole(160))),
                   Rat(5, 2))

\* x, given in the active unit, converted to the other unit and back with
\* the rounding the builder applies to each unit.
RoundTrip(x) ==
    IF setter.dispUnits = "F"
    THEN Whole(MathRound(celsiusToFahrenheit(
                 Tenths(toFixed1(fahrenheitToCelsius(x))))))
    ELSE Tenths(toFixed1(fahrenheitToCelsius(
                 Whole(MathRound(celsiusToFahrenheit(x))))))

\* C17: for every setpoint given to updateSetpoints in the active unit the
\* command carries an integer Fahrenheit value and a one-decimal Celsius
\* value of that temperature, and the setpoint converted to the other unit
\* and back, with the builder's rounding, is within 0.5 of the original.
C17_BothUnitsAndRoundTrip ==
    commands.built =>
        LET p == commands.schedule.period
        IN  /\ CarriesBothUnits(args.hsp, p.hsp, p.hspC)
            /\ CarriesBothUnits(args.csp, p.csp, p.cspC)
            /\ AtMost(Distance(RoundTrip(args.hsp), args.hsp), Rat(1, 2))
            /\ AtMost(Distance(RoundTrip(args.csp), args.csp), Rat(1, 2))

\* x is a value of the builder's precision in the active unit: a whole
\* number of degrees Fahrenheit, or a Celsius value of one decimal.
HasBuilderPrecision(x) ==
    IF setter.dispUnits = "F"
    THEN x.n % x.d = 0
    ELSE (10 * x.n) % x.d = 0

\* The round trip of x is within 0.5 of x when x has the builder's
\* precision and within 0.6 in every case.
RoundTripBounded(x) ==
    AtMost(Distance(RoundTrip(x), x),
           IF HasBuilderPrecision(x) THEN Rat(1, 2) ELSE Rat(3, 5))

\* C17, amended: the command carries an integer Fahrenheit value and a
\* one-decimal Celsius value of every setpoint given, and the setpoint
\* converted to the other unit and back, with the builder's rounding, is
\* within 0.5 of the original when the original is a whole number of
\* degrees Fahrenheit or a one-decimal Celsius value, and within 0.6 of it
\* otherwise.
C17_BothUnitsAndBoundedRoundTrip ==
    commands.built =>
        LET p == commands.schedule.period
        IN  /\ CarriesBothUnits(args.hsp, p.hsp, p.hspC)
            /\ CarriesBothUnits(args.csp, p.csp, p.cspC)
            /\ RoundTripBounded(args.hsp)
            /\ RoundTripBounded(args.csp)

\* C17 witness: an Auto request in Fahrenheit whose heating setpoint (such
\* as 67.52) comes back from the round trip more than 0.5 away, while the
\* command carries its roundings in both units.
C17_Witness ==
    /\ commands.built
    /\ setter.dispUnits = "F"
    /\ setter.state = 3
    /\ ~HasBuilderPrecision(args.hsp)
    /\ ~AtMost(Distance(RoundTrip(args.hsp), args.hsp), Rat(1, 2))
    /\ CarriesBothUnits(args.hsp, commands.schedule.period.hsp,
                        commands.schedule.period.hspC)

(* ------------------- values of a telemetry payload -------------------- *)

\* JavaScript values, by their typeof tag t.  An object is the function
\* from its keys to its values; an array is the sequence of its elements.
JNull == [t |-> "null"]

JUndefined == [t |-> "undefined"]

JNum(v) == [t |-> "number", v |-> v]

JStr(text) == [t |-> "string", text |-> text]

\* JSON.stringify(value): the string that is the JSON text of value.
JSONstringify(value) == [t |-> "string", json |-> value]

JArr(e) == [t |-> "array", e |-> e]

JObj(f) == [t |-> "object", f |-> f]

\* The value as a condition: `if (v)`, `v && ...`, `!v`.
Truthy(v) ==
    CASE v.t \in {"null", "undefined"} -> FALSE
      [] v.t = "number" -> v.v # 0
      [] v.t = "string" -> IF "text" \in DOMAIN v THEN v.text # "" ELSE TRUE
      [] v.t = "boolean" -> v.b
      [] OTHER -> TRUE

\* typeof v === 'object'
TypeofObject(v) == v.t \in {"object", "array", "null"}

\* Array.isArray(v)
IsArray(v) == v.t = "array"

\* v[k] or v.k for a v that is neither null nor undefined: undefined when
\* v has no such property.  Of an array, only the index "1" is asked for by
\* name.
Get(v, k) ==
    IF v.t = "object" /\ k \in DOMAIN v.f
    THEN v.f[k]
    ELSE IF v.t = "array" /\ k = "1" /\ Len(v.e) >= 2
    THEN v.e[2]
    ELSE JUndefined

\* Reading a property of v raises a TypeError.
ReadThrows(v) == v.t \in {"null", "undefined"}

\* String(v) for the values a zone id takes.
StringOf(v) ==
    CASE v.t = "number" -> JStr(ToString(v.v))
      [] v.t = "string" -> v
      [] v.t = "null" -> JStr("null")
      [] OTHER -> JStr("[object Object]")

(* ---------------------- parseZonesToSubstatuses ----------------------- *)

FoundZones(shape, zones) == [kind |-> "found", shape |-> shape, zones |-> zones]

NoZonesArray == [kind |-> "none"]

ProbeThrows == [kind |-> "throw"]

\* Faulty variant: the zones under Data are preferred to those at the top
\* level.
FindZonesArrayDataFirst(rd) ==
    IF Truthy(Get(rd, "Data")) /\ Truthy(Get(Get(rd, "Data"), "zones"))
       /\ IsArray(Get(Get(rd, "Data"), "zones"))
    THEN FoundZones("Data", Get(Get(rd, "Data"), "zones").e)
    ELSE IF Truthy(Get(rd, "zones")) /\ IsArray(Get(rd, "zones"))
    THEN FoundZones("top", Get(rd, "zones").e)
    ELSE NoZonesArray

\* Lines 1498-1530: the chain that looks for the zones array.  The third
\* test reads responseData[0].id, which throws when the first element is
\* null.
FindZonesArray(rd) ==
    IF Truthy(Get(rd, "zones")) /\ IsArray(Get(rd, "zones"))
    THEN FoundZones("top", Get(rd, "zones").e)
    ELSE IF Truthy(Get(rd, "1")) /\ Truthy(Get(Get(rd, "1"), "zones"))
            /\ IsArray(Get(Get(rd, "1"), "zones"))
    THEN FoundZones("1", Get(Get(rd, "1"), "zones").e)
    ELSE IF IsArray(rd) /\ Len(rd.e) > 0 /\ ReadThrows(rd.e[1])
    THEN ProbeThrows
    ELSE IF IsArray(rd) /\ Len(rd.e) > 0 /\ Get(rd.e[1], "id") # JUndefined
    THEN FoundZones("array", rd.e)
    ELSE IF Truthy(Get(rd, "Data")) /\ Truthy(Get(Get(rd, "Data"), "zones"))
            /\ IsArray(Get(Get(rd, "Data"), "zones"))
    THEN FoundZones("Data", Get(Get(rd, "Data"), "zones").e)
    ELSE IF Truthy(Get(rd, "zones")) /\ TypeofObject(Get(rd, "zones"))
            /\ ~IsArray(Get(rd, "zones"))
    THEN FoundZones("single", <<Get(rd, "zones")>>)
    ELSE NoZonesArray

\* Lines 1541-1545, and alike 1548-1552 and 1555-1559: the string taken from a user data
\* value, null when it is neither a string nor an object.
AsUserDataString(v) ==
    IF v.t = "string"
    THEN v
    ELSE IF TypeofObject(v) THEN JSONstringify(v) ELSE JNull

\* Lines 1537-1570: userDataString of a zone that is an object.
UserDataString(zn) ==
    IF Truthy(Get(zn, "user_data"))
    THEN AsUserDataString(Get(zn, "user_data"))
    ELSE IF Truthy(Get(zn, "userData"))
    THEN AsUserDataString(Get(zn, "userData"))
    ELSE IF Truthy(Get(zn, "data"))
            /\ Truthy(Get(Get(zn, "data"), "user_data"))
    THEN AsUserDataString(Get(Get(zn, "data"), "user_data"))
    ELSE IF Truthy(Get(zn, "data")) /\ TypeofObject(Get(zn, "data"))
            /\ (\/ Get(Get(zn, "data"), "zit") # JUndefined
                \/ Get(Get(zn, "data"), "opMode") # JUndefined)
    THEN JSONstringify(Get(zn, "data"))
    ELSE JNull

\* Lines 1574-1594: the substatus made of a zone, at the time now (ms).
Substatus(zn, userDataString, now) ==
    LET zoneId == IF Get(zn, "id") # JUndefined
                  THEN StringOf(Get(zn, "id"))
                  ELSE JStr("0")
        stamp == [sec |-> now \div 1000, nanosec |-> (now % 1000) * 1000000]
    IN  [relay_id |-> zoneId, guid |-> zoneId, dds_guid |-> zoneId,
         active |-> TRUE, active_ts |-> stamp,
         alive |-> TRUE, alive_ts |-> stamp,
         user_data |-> userDataString]

\* A zone is passed over: it is no object (line 1534) or has no user data
\* (line 1573).
ZoneSkipped(zn) ==
    \/ ~Truthy(zn)
    \/ ~TypeofObject(zn)
    \/ ~Truthy(UserDataString(zn))

\* Lines 1533-1599: the loop over the zones.
RECURSIVE ZoneSubstatuses(_, _)
ZoneSubstatuses(zones, now) ==
    IF zones = << >>
    THEN << >>
    ELSE IF ZoneSkipped(Head(zones))
    THEN ZoneSubstatuses(Tail(zones), now)
    ELSE <<Substatus(Head(zones), UserDataString(Head(zones)), now)>>
         \o ZoneSubstatuses(Tail(zones), now)

Returned(substatuses) ==
    [done |-> TRUE, threw |-> FALSE, substatuses |-> substatuses]

Thrown == [done |-> TRUE, threw |-> TRUE, substatuses |-> << >>]

\* private parseZonesToSubstatuses(responseData), lines 1484-1603
parseZonesToSubstatuses(responseData, now) ==
    IF ~Truthy(responseData) \/ ~TypeofObject(responseData)
    THEN Returned(<< >>)
    ELSE LET found == FindZonesArray(responseData)
         IN  CASE found.kind = "throw" -> Thrown
               [] found.kind = "none" -> Returned(<< >>)
               [] OTHER -> Returned(ZoneSubstatuses(found.zones, now))

(* ------------ specification of one resolution of a payload ----------- *)

\* The zones arrays drawn have at most MaxZones elements.
MaxZones == 2

\* The decoded user data of a zone.
UserData == JObj([zit |-> JStr("72"), opMode |-> JStr("heat")])

\* The elements of a zones array: null, a number, zones that carry their
\* user data in each of the four places looked at, a zone without user
\* data, and a zone whose user data is a string that is no JSON text.
ZoneEntries ==
    {JNull,
     JNum(7),
     JObj([id |-> JNum(0), user_data |-> JSONstringify(UserData)]),
     JObj([id |-> JNum(1), user_data |-> UserData]),
     JObj([userData |-> JSONstringify(UserData)]),
     JObj([id |-> JNum(2),
           data |-> JObj([user_data |-> JSONstringify(UserData)])]),
     JObj([id |-> JNum(3), data |-> UserData]),
     JObj([id |-> JNum(4)]),
     JObj([id |-> JNum(5), user_data |-> JStr("not json")])}

ZoneLists == UNION {[1..n -> ZoneEntries] : n \in 0..MaxZones}

\* An object with the one key k.
Keyed(k, v) == JObj(k :> v)

\* Payloads of one shape each: no object, an empty object, and the zones
\* in each place parseZonesToSubstatuses looks at.
ShapedPayloads ==
    {JNull, JNum(1), JStr("zones"), JObj(<< >>)}
    \cup {Keyed("zones", JArr(l)) : l \in ZoneLists}
    \cup {Keyed("1", Keyed("zones", JArr(l))) : l \in ZoneLists}
    \cup {JArr(l) : l \in ZoneLists}
    \cup {Keyed("Data", Keyed("zones", JArr(l))) : l \in ZoneLists}
    \cup {Keyed("zones", z) : z \in ZoneEntries}

\* Payloads that hold zones in several places at once.
MixedPayloads ==
    {JObj(("zones" :> top) @@ ("Data" :> Keyed("zones", JArr(<<under>>)))) :
        top \in {JArr(<< >>), JArr(<<JNum(7)>>),
                 JArr(<<JObj([id |-> JNum(0), user_data |-> UserData])>>),
                 JObj([id |-> JNum(4)])},
        under \in ZoneEntries}
    \cup
    {JObj(("zones" :> top) @@ ("1" :> Keyed("zones", JArr(<<under>>)))) :
        top \in {JArr(<< >>), JObj([id |-> JNum(1), user_data |-> UserData])},
        under \in ZoneEntries}
    \cup
    {JObj(("1" :> Keyed("zones", JArr(l)))
          @@ ("Data" :> Keyed("zones", JArr(<<under>>)))) :
        l \in {<< >>, <<JObj([id |-> JNum(4)])>>},
        under \in ZoneEntries}

Payloads == ShapedPayloads \cup MixedPayloads

\* The values of Date.now(), in milliseconds.
Clock == {1500, 2750}

ResolveInit ==
    /\ payload \in Payloads
    /\ resolved = NotResolved
    /\ PublishIdle
    /\ UpdateIdle
    /\ RestIdle
    /\ request = [p \in Calls |-> NoRequest]
    /\ ZoneIdle
    /\ CommandIdle

\* parseZonesToSubstatuses(payload) is called.
ParseZones ==
    /\ ~resolved.done
    /\ \E now \in Clock : resolved' = parseZonesToSubstatuses(payload, now)
    /\ UNCHANGED <<pubVars, updVars, restVars, zoneVars, cmdVars, payload>>

ResolveNext == ParseZones

SpecResolve == ResolveInit /\ [][ResolveNext]_vars

(* ---------------------- claims about the resolver --------------------- *)

\* C18: the resolver never throws, whatever the payload, arrays with null
\* or other non-object elements included: it returns.
C18_ResolverNeverThrows ==
    resolved.done => ~resolved.threw

\* A user data value that can be decoded: an object, or a JSON text.
Decodable(v) ==
    \/ v.t = "object"
    \/ v.t = "string" /\ "json" \in DOMAIN v

\* A well-formed zone: an object that has decodable user data in one of
\* the places where a zone carries it.
WellFormedZone(zn) ==
    /\ zn.t = "object"
    /\ \/ Decodable(Get(zn, "user_data"))
       \/ Decodable(Get(zn, "userData"))
       \/ /\ Get(zn, "data").t = "object"
          /\ \/ Decodable(Get(Get(zn, "data"), "user_data"))
             \/ Get(Get(zn, "data"), "zit") # JUndefined
             \/ Get(Get(zn, "data"), "opMode") # JUndefined

\* The zones of a payload that holds them in one place.
ZonesIn(rd) ==
    CASE IsArray(rd) -> rd.e
      [] rd.t = "object" /\ IsArray(Get(rd, "zones")) -> Get(rd, "zones").e
      [] rd.t = "object" /\ Get(rd, "1").t = "object"
         /\ IsArray(Get(Get(rd, "1"), "zones")) -> Get(Get(rd, "1"), "zones").e
      [] rd.t = "object" /\ Get(rd, "Data").t = "object"
         /\ IsArray(Get(Get(rd, "Data"), "zones")) ->
             Get(Get(rd, "Data"), "zones").e
      [] OTHER -> << >>

\* The id a status record bears for a zone.
RecordId(zn) ==
    IF Get(zn, "id") # JUndefined THEN StringOf(Get(zn, "id")) ELSE JStr("0")

\* The ids of the records the well-formed zones of a payload are to yield,
\* in payload order.
WellFormedIds(rd) ==
    LET w == SelectSeq(ZonesIn(rd), WellFormedZone)
    IN  [k \in 1..Len(w) |-> RecordId(w[k])]

RelayIds(substatuses) ==
    [k \in 1..Len(substatuses) |-> substatuses[k].relay_id]

\* C19: when a payload holds several zones and one of them is malformed
\* (no object, or without decodable user data), that zone alone is
\* skipped: the resolver returns one record for every well-formed zone, in
\* payload order.
C19_OnlyMalformedZonesSkipped ==
    (/\ resolved.done
     /\ payload \in ShapedPayloads
     /\ Len(ZonesIn(payload)) >= 2
     /\ \E k \in 1..Len(ZonesIn(payload)) :
           ~WellFormedZone(ZonesIn(payload)[k]))
    => /\ ~resolved.threw
       /\ RelayIds(resolved.substatuses) = WellFormedIds(payload)

\* The zones a payload holds in the place of a shape; none when the place
\* does not hold what the shape asks for.
ShapeZones(rd, shape) ==
    CASE shape = "top" ->
           IF IsArray(Get(rd, "zones")) THEN Get(rd, "zones").e ELSE << >>
      [] shape = "1" ->
           IF Truthy(Get(rd, "1")) /\ IsArray(Get(Get(rd, "1"), "zones"))
           THEN Get(Get(rd, "1"), "zones").e ELSE << >>
      [] shape = "array" ->
           IF IsArray(rd) THEN rd.e ELSE << >>
      [] shape = "Data" ->
           IF Truthy(Get(rd, "Data")) /\ IsArray(Get(Get(rd, "Data"), "zones"))
           THEN Get(Get(rd, "Data"), "zones").e ELSE << >>
      [] shape = "single" ->
           IF Get(rd, "zones").t = "object"
           THEN <<Get(rd, "zones")>> ELSE << >>

\* The place of a shape holds what the shape asks for, with or without
\* zones in it.
ShapePresent(rd, shape) ==
    CASE shape = "top" -> IsArray(Get(rd, "zones"))
      [] shape = "1" ->
           Truthy(Get(rd, "1")) /\ IsArray(Get(Get(rd, "1"), "zones"))
      [] shape = "array" ->
           /\ IsArray(rd)
           /\ Len(rd.e) > 0
           /\ Get(rd.e[1], "id") # JUndefined
      [] shape = "Data" ->
           Truthy(Get(rd, "Data")) /\ IsArray(Get(Get(rd, "Data"), "zones"))
      [] shape = "single" -> Get(rd, "zones").t = "object"

\* What identifies the records of a result: their ids and user data.
Records(substatuses) ==
    [k \in 1..Len(substatuses) |->
        <<substatuses[k].relay_id, substatuses[k].user_data>>]

\* The records the zones in the place of a shape yield.
ShapeYield(rd, shape) == Records(ZoneSubstatuses(ShapeZones(rd, shape), 0))

\* The records of the first shape of the order that satisfies Test; none
\* when no shape does.
FirstYield(rd, order, Test(_, _)) ==
    LET hits == {k \in 1..Len(order) : Test(rd, order[k])}
    IN  IF hits = {}
        THEN << >>
        ELSE ShapeYield(rd, order[CHOOSE k \in hits : \A j \in hits : k <= j])

Yields(rd, shape) == ShapeYield(rd, shape) # << >>

\* C20: the result of the resolver on an object is that of the first
\* shape, in the order top-level zones array, zones under the numeric
\* key, zones under the data key, single zone object, that yields at
\* least one zone: an earlier shape that is present without yielding a
\* zone (an empty top-level zones array) does not keep a later shape from
\* being used.
C20_FirstYieldingShape ==
    (resolved.done /\ payload.t = "object") =>
        /\ ~resolved.threw
        /\ Records(resolved.substatuses) =
              FirstYield(payload, <<"top", "1", "Data", "single">>, Yields)

\* C20, amended: the result of the resolver, when it returns one, is that
\* of the first shape that is present, in the order top-level zones
\* array, zones array under the key "1", the payload itself an array
\* whose first element has an id, zones array under the Data key, single
\* zone object, whether or not that shape yields a zone; it is empty when
\* no shape is present.
C20_FirstPresentShape ==
    (resolved.done /\ ~resolved.threw) =>
        Records(resolved.substatuses) =
            IF TypeofObject(payload) /\ Truthy(payload)
            THEN FirstYield(payload, <<"top", "1", "array", "Data", "single">>,
                            ShapePresent)
            ELSE << >>

\* C20 witness: the payload has an empty top-level zones array and a zone
\* with user data under the Data key, and the result is empty.
C20_Witness ==
    /\ resolved.done
    /\ ~resolved.threw
    /\ payload.t = "object"
    /\ ShapePresent(payload, "top")
    /\ ShapeZones(payload, "top") = << >>
    /\ Yields(payload, "Data")
    /\ resolved.substatuses = << >>


(* ----------------- parseRetrieveMessagesToSubstatuses ----------------- *)

JBool(b) == [t |-> "boolean", b |-> b]

\* v !== undefined
Defined(v) == v.t # "undefined"

\* a < b for two values of a payload: false unless both are numbers.
JLess(a, b) == a.t = "number" /\ b.t = "number" /\ a.v < b.v

\* v >= lo && v <= hi
InRange(v, lo, hi) == v.t = "number" /\ v.v >= lo /\ v.v <= hi

\* v || 0
OrZero(v) == IF Truthy(v) THEN v ELSE JNum(0)

\* The string that String(x) makes of the number x, kept as that number.
NumString(x) == [t |-> "string", num |-> x]

\* String(v) of a number of a payload
StringOfNumber(v) == NumString(Whole(v.v))

\* parseFloat(v) || 0
ParseFloatOrZero(v) ==
    IF v.t = "string" /\ "num" \in DOMAIN v
    THEN v.num
    ELSE IF v.t = "number" THEN Whole(v.v) ELSE Whole(0)

\* Lines 710-717: the operating mode of a period.
OpModeOf(pd) ==
    CASE Get(pd, "systemMode") = JStr("heat and cool") -> "hc"
      [] Get(pd, "systemMode") = JStr("heat") -> "heat"
      [] Get(pd, "systemMode") = JStr("cool") -> "cool"
      [] OTHER -> "off"

\* Lines 720-725: the running state of a zone.
StatusValue(st, pd) ==
    IF \/ Truthy(Get(st, "heatCoast"))
       \/ /\ Truthy(Get(st, "temperature"))
          /\ Truthy(Get(pd, "hsp"))
          /\ JLess(Get(st, "temperature"), Get(pd, "hsp"))
    THEN "h"
    ELSE IF /\ Truthy(Get(st, "temperature"))
            /\ Truthy(Get(pd, "csp"))
            /\ JLess(Get(pd, "csp"), Get(st, "temperature"))
    THEN "c"
    ELSE "off"

\* Lines 759-765, and alike 769-775 and 779-785: the unit a value suggests
\* by its range, F when it suggests none.
RangeUnit(v) ==
    IF InRange(v, 50, 90)
    THEN "F"
    ELSE IF InRange(v, 10, 35) THEN "C" ELSE "F"

\* Line 745: ((period.hsp - 32) * 5) / 9
ExpectedC(hsp) == Over(Times(Minus(Whole(hsp.v), Whole(32)), 5), 9)

\* Math.abs(a - b) < 2
Within2(a, b) == ~AtMost(Whole(2), Distance(a, b))

\* Faulty variant: the setpoints are judged by their range alone.
InferredUnitsByRange(st, pd) ==
    IF Defined(Get(pd, "hsp"))
    THEN RangeUnit(Get(pd, "hsp"))
    ELSE IF Defined(Get(st, "temperature"))
    THEN RangeUnit(Get(st, "temperature"))
    ELSE "F"

\* Faulty variant: the temperature reading is consulted before the heating
\* setpoint.
InferredUnitsTemperatureFirst(st, pd) ==
    IF Defined(Get(pd, "hsp")) /\ Defined(Get(pd, "hspC"))
    THEN IF Within2(ParseFloatOrZero(Get(pd, "hspC")), ExpectedC(Get(pd, "hsp")))
         THEN "F"
         ELSE IF Within2(ParseFloatOrZero(Get(pd, "hspC")),
                         Whole(Get(pd, "hsp").v))
         THEN "C"
         ELSE RangeUnit(Get(pd, "hsp"))
    ELSE IF Defined(Get(st, "temperature"))
    THEN RangeUnit(Get(st, "temperature"))
    ELSE IF Defined(Get(pd, "hsp"))
    THEN RangeUnit(Get(pd, "hsp"))
    ELSE "F"

\* Lines 740-786: the unit detected from the setpoints and the temperature.
InferredUnits(st, pd) ==
    IF Defined(Get(pd, "hsp")) /\ Defined(Get(pd, "hspC"))
    THEN IF Within2(ParseFloatOrZero(Get(pd, "hspC")), ExpectedC(Get(pd, "hsp")))
         THEN "F"
         ELSE IF Within2(ParseFloatOrZero(Get(pd, "hspC")),
                         Whole(Get(pd, "hsp").v))
         THEN "C"
         ELSE RangeUnit(Get(pd, "hsp"))
    ELSE IF Defined(Get(pd, "hsp"))
    THEN RangeUnit(Get(pd, "hsp"))
    ELSE IF Defined(Get(st, "temperature"))
    THEN RangeUnit(Get(st, "temperature"))
    ELSE "F"

\* Line 729: config.temperatureUnit || 'auto'
ConfigUnit(unit) == IF unit = "" THEN "auto" ELSE unit

\* Faulty variant: the configured unit is not looked at.
DispUnitsDetectedOnly(unit, st, pd) == InferredUnits(st, pd)

\* Lines 729-787: the display unit of a zone.
DispUnits(unit, st, pd) ==
    IF ConfigUnit(unit) \in {"F", "C"}
    THEN ConfigUnit(unit)
    ELSE InferredUnits(st, pd)

\* Line 827: the indoor temperature in Fahrenheit, as a string.
Zit(dispUnits, temperature) ==
    IF dispUnits = "F"
    THEN StringOfNumber(OrZero(temperature))
    ELSE NumString(celsiusToFahrenheit(Whole(OrZero(temperature).v)))

\* Line 828: the indoor temperature in Celsius, as a string.
ZitC(dispUnits, temperature) ==
    IF dispUnits = "C"
    THEN StringOfNumber(OrZero(temperature))
    ELSE NumString(fahrenheitToCelsius(Whole(OrZero(temperature).v)))

\* Lines 790-832: the user data made of a zone's status and period.  The
\* entries that are the same literal for every zone (arr, dband, home, kind,
\* the limits, numZones, occ, prdctType, rsbusMode, schedNames, sspMode,
\* sysName, version, zoneNames, zoningMode) are left out.
RetrievedUserData(zn, unit, now) ==
    LET st == Get(zn, "status")
        pd == Get(st, "period")
        dispUnits == DispUnits(unit, st, pd)
    IN  JObj([csp |-> StringOfNumber(OrZero(Get(pd, "csp"))),
              cspC |-> StringOfNumber(OrZero(Get(pd, "cspC"))),
              dispUnits |-> JStr(dispUnits),
              feelsLike |-> StringOfNumber(OrZero(Get(st, "temperature"))),
              hsp |-> StringOfNumber(OrZero(Get(pd, "hsp"))),
              hspC |-> StringOfNumber(OrZero(Get(pd, "hspC"))),
              id |-> IF Defined(Get(zn, "id"))
                     THEN StringOf(Get(zn, "id"))
                     ELSE JStr("0"),
              opMode |-> JStr(OpModeOf(pd)),
              ot |-> OrZero(Get(st, "temperature")),
              otC |-> StringOfNumber(OrZero(Get(st, "temperature"))),
              rh |-> StringOfNumber(OrZero(Get(st, "humidity"))),
              ssp |-> OrZero(Get(pd, "startTime")),
              sspC |-> StringOfNumber(OrZero(Get(pd, "startTime"))),
              status |-> JStr(StatusValue(st, pd)),
              tstamp |-> [t |-> "string", iso |-> now],
              wsp |-> StringOfNumber(OrZero(Get(pd, "sp"))),
              zit |-> Zit(dispUnits, Get(st, "temperature")),
              zitC |-> ZitC(dispUnits, Get(st, "temperature")),
              fanMode |-> IF Truthy(Get(pd, "fanMode"))
                          THEN Get(pd, "fanMode")
                          ELSE JStr("auto")])

\* Lines 834-855: the substatus made of a zone in the status/period shape.
RetrievedSubstatus(zn, unit, now) ==
    LET zoneId == IF Defined(Get(zn, "id"))
                  THEN StringOf(Get(zn, "id"))
                  ELSE JStr("0")
        stamp == [sec |-> now \div 1000, nanosec |-> (now % 1000) * 1000000]
    IN  [relay_id |-> zoneId, guid |-> zoneId, dds_guid |-> zoneId,
         active |-> TRUE, active_ts |-> stamp,
         alive |-> TRUE, alive_ts |-> stamp,
         user_data |-> JSONstringify(RetrievedUserData(zn, unit, now))]

\* Lines 701-704: a zone is passed over.
RetrieveZoneSkipped(zn) ==
    \/ ~Truthy(zn)
    \/ ~TypeofObject(zn)
    \/ ~Truthy(Get(zn, "status"))
    \/ ~Truthy(Get(Get(zn, "status"), "period"))

\* Lines 700-861: the loop over the zones of a message.
RECURSIVE RetrievedZones(_, _, _)
RetrievedZones(zones, unit, now) ==
    IF zones = << >>
    THEN << >>
    ELSE IF RetrieveZoneSkipped(Head(zones))
    THEN RetrievedZones(Tail(zones), unit, now)
    ELSE <<RetrievedSubstatus(Head(zones), unit, now)>>
         \o RetrievedZones(Tail(zones), unit, now)

\* Lines 694-699: a message carries zones to convert.
CarriesZones(msg) ==
    /\ Truthy(msg)
    /\ TypeofObject(msg)
    /\ Get(msg, "MessageType") = JStr("PropertyChange")
    /\ Truthy(Get(msg, "Data"))
    /\ Truthy(Get(Get(msg, "Data"), "zones"))
    /\ IsArray(Get(Get(msg, "Data"), "zones"))

\* Lines 693-864: the loop over the messages.
RECURSIVE RetrievedMessages(_, _, _)
RetrievedMessages(msgs, unit, now) ==
    IF msgs = << >>
    THEN << >>
    ELSE IF CarriesZones(Head(msgs))
    THEN RetrievedZones(Get(Get(Head(msgs), "Data"), "zones").e, unit, now)
         \o RetrievedMessages(Tail(msgs), unit, now)
    ELSE RetrievedMessages(Tail(msgs), unit, now)

\* Lines 686-690: the messages to parse, those nested under the only
\* element when there are any.
MessagesToParse(msgs) ==
    IF /\ Len(msgs) = 1
       /\ Truthy(Get(msgs[1], "messages"))
       /\ IsArray(Get(msgs[1], "messages"))
    THEN Get(msgs[1], "messages").e
    ELSE msgs

\* private parseRetrieveMessagesToSubstatuses(messages), lines 675-868,
\* given the elements of an array of messages.
parseRetrieveMessagesToSubstatuses(msgs, unit, now) ==
    IF msgs = << >>
    THEN Returned(<< >>)
    ELSE IF Len(msgs) = 1 /\ ReadThrows(msgs[1])
    THEN Thrown
    ELSE Returned(RetrievedMessages(MessagesToParse(msgs), unit, now))



(* ------------------- getPrimaryZoneData, updateStatus ----------------- *)

\* JSON.parse(text) of line 1353, null standing for the failure that the
\* catch of line 1355 turns into null.
JSONparse(text) == IF "json" \in DOMAIN text THEN text.json ELSE JNull

\* Lines 1341-1346: the first substatus that is active and alive, the first
\* one when there is none.
PrimarySubstatus(substatuses) ==
    LET living == SelectSeq(substatuses, LAMBDA sub : sub.active /\ sub.alive)
    IN  IF living # << >> THEN living[1] ELSE substatuses[1]

\* getPrimaryZoneData(system), lines 1335-1362: the user data of the primary
\* zone among system.status.substatuses, null when there is none.
getPrimaryZoneData(substatuses) ==
    IF substatuses = << >>
    THEN JNull
    ELSE IF ~Truthy(PrimarySubstatus(substatuses).user_data)
    THEN JNull
    ELSE JSONparse(PrimarySubstatus(substatuses).user_data)

\* Faulty variant: a schedule start of 0 is taken as well.
StartTimeFromAnySsp(current, userData) ==
    IF Defined(Get(userData, "ssp"))
    THEN Get(userData, "ssp").v
    ELSE current

\* Lines 137-140: this.currentStartTime after the telemetry userData.
StartTimeFromSsp(current, userData) ==
    IF Defined(Get(userData, "ssp")) /\ JLess(JNum(0), Get(userData, "ssp"))
    THEN Get(userData, "ssp").v
    ELSE current

\* isFahrenheit ? fahrenheitToCelsius(parseFloat(f) || 0) : parseFloat(c) || 0
InCelsius(userData, f, c) ==
    IF Get(userData, "dispUnits") = JStr("F")
    THEN fahrenheitToCelsius(ParseFloatOrZero(Get(userData, f)))
    ELSE ParseFloatOrZero(Get(userData, c))

\* updateTargetTemperatureFromMode(userData), lines 762-789, for the target
\* state and the current temperature the accessory holds when it is called.
TargetTemperatureFromMode(state, currentTemperature, userData) ==
    CASE state = 1 -> InCelsius(userData, "hsp", "hspC")
      [] state = 2 -> InCelsius(userData, "csp", "cspC")
      [] state = 3 -> Over(Plus(InCelsius(userData, "hsp", "hspC"),
                                InCelsius(userData, "csp", "cspC")), 2)
      [] OTHER -> currentTemperature

\* private mapOpModeToState(opMode), lines 812-825
mapOpModeToState(opMode) ==
    CASE opMode = JStr("hc") -> 3
      [] opMode = JStr("heat") -> 1
      [] opMode = JStr("cool") -> 2
      [] OTHER -> 0

\* private mapStatusToState(status), lines 829-840
mapStatusToState(status) ==
    CASE status = JStr("h") -> 1
      [] status = JStr("c") -> 2
      [] OTHER -> 0

\* Line 177: the rotation speed shown for a fan mode.
RotationSpeedOf(fanMode) ==
    CASE fanMode = JStr("on") -> 100
      [] fanMode = JStr("auto") -> 50
      [] OTHER -> 0

\* Lines 147-178: the thermostat state after the telemetry userData.
StatusFields(f, userData) ==
    LET currentTemperature == InCelsius(userData, "zit", "zitC")
        hasFan == Truthy(Get(userData, "fanMode")) /\ f.fanService
    IN  [currentTemperature |-> currentTemperature,
         heatingThresholdTemperature |-> InCelsius(userData, "hsp", "hspC"),
         coolingThresholdTemperature |-> InCelsius(userData, "csp", "cspC"),
         targetTemperature |->
             TargetTemperatureFromMode(f.targetHeatingCoolingState,
                                       currentTemperature, userData),
         targetHeatingCoolingState |-> mapOpModeToState(Get(userData, "opMode")),
         currentHeatingCoolingState |-> mapStatusToState(Get(userData, "status")),
         currentRelativeHumidity |-> ParseFloatOrZero(Get(userData, "rh")),
         temperatureDisplayUnits |->
             IF Get(userData, "dispUnits") = JStr("F") THEN 1 ELSE 0,
         fanActive |-> IF hasFan
                       THEN Get(userData, "status") # JStr("off")
                       ELSE f.fanActive,
         fanRotationSpeed |-> IF hasFan
                              THEN RotationSpeedOf(Get(userData, "fanMode"))
                              ELSE f.fanRotationSpeed,
         fanService |-> f.fanService]

\* Faulty variant: the handler takes the zone to be in the override it
\* was put in.
UpdateStatusKnowingSchedule(substatuses) ==
    LET userData == getPrimaryZoneData(substatuses)
    IN  /\ IF ~Truthy(userData)
           THEN UNCHANGED <<fields, currentStartTime, currentZoneScheduleId>>
           ELSE /\ currentStartTime' = StartTimeFromSsp(currentStartTime, userData)
                /\ fields' = StatusFields(fields, userData)
                /\ currentZoneScheduleId' =
                       getOverrideScheduleId(PrimaryZoneId)
        /\ UNCHANGED <<updateInProgress, senderId>>

\* Faulty variant: the handler resets the in-flight flag.
UpdateStatusReleasing(substatuses) ==
    LET userData == getPrimaryZoneData(substatuses)
    IN  /\ IF ~Truthy(userData)
           THEN UNCHANGED <<fields, currentStartTime>>
           ELSE /\ currentStartTime' = StartTimeFromSsp(currentStartTime, userData)
                /\ fields' = StatusFields(fields, userData)
        /\ updateInProgress' = FALSE
        /\ UNCHANGED <<currentZoneScheduleId, senderId>>

\* updateStatus(system), lines 125-227, for the substatuses of the system,
\* as it leaves the fields of the accessory: nothing is touched when the
\* system has no zone data, and it assigns neither updateInProgress nor
\* currentZoneScheduleId nor senderId.
UpdateStatus(substatuses) ==
    LET userData == getPrimaryZoneData(substatuses)
    IN  /\ IF ~Truthy(userData)
           THEN UNCHANGED <<fields, currentStartTime>>
           ELSE /\ currentStartTime' = StartTimeFromSsp(currentStartTime, userData)
                /\ fields' = StatusFields(fields, userData)
        /\ UNCHANGED <<updateInProgress, currentZoneScheduleId, senderId>>

\* The last positive ssp among those given to updateStatus so far, once the
\* system of the given substatuses has been given to it.
ObservedSsp(last, substatuses) ==
    IF substatuses # << >>
       /\ "json" \in DOMAIN substatuses[1].user_data
       /\ "ssp" \in DOMAIN substatuses[1].user_data.json.f
       /\ substatuses[1].user_data.json.f.ssp.t = "number"
       /\ substatuses[1].user_data.json.f.ssp.v > 0
    THEN substatuses[1].user_data.json.f.ssp.v
    ELSE last

(* --------- specification of the telemetry of the Retrieve endpoint ---- *)

Undefinable(values) == {JUndefined} \cup {JNum(v) : v \in values}

HeatingSetpoints == Undefinable({0, 14, 20, 40, 68})

CelsiusHeatingSetpoints == Undefinable({-10, 18, 20, 40})

\* csp and cspC as a thermostat reports them together
CoolingSetpoints ==
    {<<JUndefined, JUndefined>>, <<JNum(0), JNum(0)>>,
     <<JNum(24), JNum(24)>>, <<JNum(72), JNum(22)>>}

Temperatures == Undefinable({0, 20, 70})

HeatCoasts == {JUndefined, JBool(TRUE)}

SystemModes == {JStr("heat and cool"), JStr("heat"), JStr("off")}

StartTimes == {JNum(0), JNum(28800)}

TemperatureUnits == {"", "F", "C"}

\* A zone in the status/period shape.
StatusZone(temperature, heatCoast, hsp, hspC, cool, systemMode, startTime) ==
    JObj([id |-> JNum(0),
          status |->
              JObj([temperature |-> temperature,
                    heatCoast |-> heatCoast,
                    humidity |-> JNum(45),
                    period |-> JObj([hsp |-> hsp, hspC |-> hspC,
                                     csp |-> cool[1], cspC |-> cool[2],
                                     systemMode |-> systemMode,
                                     startTime |-> startTime])])])

StatusZones ==
    {StatusZone(temperature, heatCoast, hsp, hspC, cool, systemMode, startTime) :
        temperature \in Temperatures, heatCoast \in HeatCoasts,
        hsp \in HeatingSetpoints, hspC \in CelsiusHeatingSetpoints,
        cool \in CoolingSetpoints, systemMode \in SystemModes,
        startTime \in StartTimes}

PropertyChange(zones) ==
    JObj([MessageType |-> JStr("PropertyChange"),
          Data |-> JObj([zones |-> JArr(zones)])])

\* One zone every field of which is reported.
UsualZone ==
    StatusZone(JNum(70), JUndefined, JNum(68), JNum(20),
               <<JNum(72), JNum(22)>>, JStr("heat and cool"), JNum(28800))

\* Arrays of messages of the other forms the endpoint is seen to answer
\* with: none, nested under one element, of another type, with zones that
\* are no status/period pairs, and an only element that is null.
OtherMessages ==
    {<< >>,
     <<JObj([messages |-> JArr(<<PropertyChange(<<UsualZone>>)>>)])>>,
     <<JObj([MessageType |-> JStr("Heartbeat")]), PropertyChange(<<UsualZone>>)>>,
     <<PropertyChange(<<JNull, JObj([id |-> JNum(1)]), UsualZone>>)>>,
     <<JNull>>}

RetrieveInit ==
    /\ messages \in {<<PropertyChange(<<zn>>)>> : zn \in StatusZones}
                    \cup OtherMessages
    /\ temperatureUnit \in TemperatureUnits
    /\ retrieved = NotResolved
    /\ AccessoryIdle
    /\ PlatformIdle
    /\ ExtIdle
    /\ PublishIdle
    /\ UpdateIdle
    /\ request = [p \in Calls |-> NoRequest]
    /\ ZoneIdle
    /\ CommandIdle
    /\ ResolveIdle

\* The resolver is given the messages.
ParseRetrieve ==
    /\ ~retrieved.done
    /\ \E now \in Clock :
          retrieved' = parseRetrieveMessagesToSubstatuses(messages,
                                                          temperatureUnit, now)
    /\ UNCHANGED <<pubVars, updVars, pureVars, extVars, accVars, platVars, messages,
                   temperatureUnit>>

\* The accessory is given the system that holds the substatuses resolved.
StatusFromRetrieved ==
    /\ retrieved.done
    /\ ~retrieved.threw
    /\ UpdateStatus(retrieved.substatuses)
    /\ lastPositiveSsp' = ObservedSsp(lastPositiveSsp, retrieved.substatuses)
    /\ UNCHANGED <<pubVars, invVars, pureVars, extVars, retVars, platVars>>

RetrieveNext == ParseRetrieve \/ StatusFromRetrieved

SpecRetrieve == RetrieveInit /\ [][RetrieveNext]_vars

\* The only zone of the messages, and what is made of it.
TheZone == Get(Get(messages[1], "Data"), "zones").e[1]

TheStatus == Get(TheZone, "status")

ThePeriod == Get(TheStatus, "period")

OneZoneRetrieved ==
    /\ retrieved.done
    /\ ~retrieved.threw
    /\ Len(messages) = 1
    /\ CarriesZones(messages[1])
    /\ Len(Get(Get(messages[1], "Data"), "zones").e) = 1
    /\ Len(retrieved.substatuses) = 1

TheUserData == JSONparse(retrieved.substatuses[1].user_data)



\* C21: for a zone in the status/period shape, the running state is heating
\* if the status declares heat-coast or the temperature is below the heating
\* setpoint, otherwise cooling if the temperature exceeds the cooling
\* setpoint, otherwise idle, whatever the values are, 0 included.
C21_RunningStateOfEveryValue ==
    OneZoneRetrieved =>
        Get(TheUserData, "status") =
            JStr(IF \/ Truthy(Get(TheStatus, "heatCoast"))
                    \/ JLess(Get(TheStatus, "temperature"), Get(ThePeriod, "hsp"))
                 THEN "h"
                 ELSE IF JLess(Get(ThePeriod, "csp"), Get(TheStatus, "temperature"))
                 THEN "c"
                 ELSE "off")

\* C22: when the configured temperature unit is F or C, the unit of the
\* zone is that unit for every telemetry input, whatever the setpoints and
\* the temperature are.
C22_ConfiguredUnitReturned ==
    (OneZoneRetrieved /\ temperatureUnit \in {"F", "C"}) =>
        Get(TheUserData, "dispUnits") = JStr(temperatureUnit)

\* C22 witness: the unit C is configured for a zone whose setpoints are those
\* of a Fahrenheit thermostat.
C22_Witness ==
    /\ OneZoneRetrieved
    /\ temperatureUnit = "C"
    /\ Get(ThePeriod, "hsp") = JNum(68)
    /\ Get(ThePeriod, "hspC") = JNum(20)
    /\ Get(TheStatus, "temperature") = JNum(70)
    /\ Get(TheUserData, "dispUnits") = JStr("C")

\* The unit the range heuristic gives for a value of the telemetry.
ByRange(v) ==
    IF v.v >= 50 /\ v.v <= 90
    THEN "F"
    ELSE IF v.v >= 10 /\ v.v <= 35 THEN "C" ELSE "F"

\* |9 * hspC - 5 * (hsp - 32)| < 18, which is |hspC - (hsp - 32) * 5 / 9| < 2
CloseToConversion(hsp, hspC) ==
    /\ 9 * hspC.v - 5 * (hsp.v - 32) < 18
    /\ 5 * (hsp.v - 32) - 9 * hspC.v < 18

\* |hspC - hsp| < 2
CloseToRaw(hsp, hspC) == hspC.v - hsp.v < 2 /\ hsp.v - hspC.v < 2

NoOverride == temperatureUnit \notin {"F", "C"}

\* C23: with no configured override and both hsp and hspC present, the unit
\* is F when |hspC - (hsp - 32) * 5 / 9| < 2, else C when |hspC - hsp| < 2,
\* else what the range heuristic gives for hsp (F in [50, 90], C in
\* [10, 35], F otherwise); hsp = 68 with hspC = 18 gives F.
C23_BothSetpointsPresent ==
    (/\ OneZoneRetrieved
     /\ NoOverride
     /\ Defined(Get(ThePeriod, "hsp"))
     /\ Defined(Get(ThePeriod, "hspC"))) =>
        /\ Get(TheUserData, "dispUnits") =
              JStr(IF CloseToConversion(Get(ThePeriod, "hsp"), Get(ThePeriod, "hspC"))
                   THEN "F"
                   ELSE IF CloseToRaw(Get(ThePeriod, "hsp"), Get(ThePeriod, "hspC"))
                   THEN "C"
                   ELSE ByRange(Get(ThePeriod, "hsp")))
        /\ (Get(ThePeriod, "hsp") = JNum(68) /\ Get(ThePeriod, "hspC") = JNum(18)) =>
              Get(TheUserData, "dispUnits") = JStr("F")

\* C23 witness: a heating setpoint of 14 with its Celsius counterpart -10 is
\* found to be Fahrenheit by the conversion, against its range.
C23_Witness ==
    /\ OneZoneRetrieved
    /\ NoOverride
    /\ Get(ThePeriod, "hsp") = JNum(14)
    /\ Get(ThePeriod, "hspC") = JNum(-10)
    /\ Get(TheUserData, "dispUnits") = JStr("F")

\* The setpoints the inference is given: hsp and its Celsius counterpart.
SetpointsAvailable ==
    {v \in {Get(ThePeriod, "hsp"), Get(ThePeriod, "hspC")} : Defined(v)}

\* C24 as stated: with no configured override, if only one setpoint is
\* available the range heuristic is applied to it, the temperature is
\* consulted with the same ranges only when no setpoint is available, and
\* the unit is F whenever nothing is decisive.
C24_WhicheverSetpoint ==
    (OneZoneRetrieved /\ NoOverride) =>
        /\ \A v \in SetpointsAvailable :
              SetpointsAvailable = {v} =>
                  Get(TheUserData, "dispUnits") = JStr(ByRange(v))
        /\ (SetpointsAvailable = {} /\ Defined(Get(TheStatus, "temperature"))) =>
              Get(TheUserData, "dispUnits") = JStr(ByRange(Get(TheStatus, "temperature")))
        /\ (SetpointsAvailable = {} /\ ~Defined(Get(TheStatus, "temperature"))) =>
              Get(TheUserData, "dispUnits") = JStr("F")

\* C24 amended: with no configured override, if hsp is available without
\* hspC the range heuristic is applied to hsp, the temperature is consulted
\* with the same ranges exactly when hsp is not available (hspC and the
\* cooling setpoints are never judged by their range), and the unit is F
\* whenever nothing is decisive.
C24_HeatingSetpointOnly ==
    (OneZoneRetrieved /\ NoOverride) =>
        /\ (Defined(Get(ThePeriod, "hsp")) /\ ~Defined(Get(ThePeriod, "hspC"))) =>
              Get(TheUserData, "dispUnits") = JStr(ByRange(Get(ThePeriod, "hsp")))
        /\ (~Defined(Get(ThePeriod, "hsp")) /\ Defined(Get(TheStatus, "temperature"))) =>
              Get(TheUserData, "dispUnits") = JStr(ByRange(Get(TheStatus, "temperature")))
        /\ (~Defined(Get(ThePeriod, "hsp")) /\ ~Defined(Get(TheStatus, "temperature"))) =>
              Get(TheUserData, "dispUnits") = JStr("F")

\* C24 witness: only the Celsius counterpart of the heating setpoint is
\* available, and the unit is the one the temperature suggests.
C24_Witness ==
    /\ OneZoneRetrieved
    /\ NoOverride
    /\ ~Defined(Get(ThePeriod, "hsp"))
    /\ Get(ThePeriod, "hspC") = JNum(20)
    /\ Get(TheStatus, "temperature") = JNum(70)
    /\ Get(TheUserData, "dispUnits") = JStr("F")

\* C30: every zone status produced by the resolver, and the thermostat state
\* the accessory holds after updateStatus, has its heating setpoint at most
\* its cooling setpoint when the operating mode is heat-and-cool.
C30_HeatingAtMostCooling ==
    /\ OneZoneRetrieved =>
          (Get(TheUserData, "opMode") = JStr("hc") =>
              AtMost(Get(TheUserData, "hsp").num, Get(TheUserData, "csp").num))
    /\ (fields # InitialFields /\ fields.targetHeatingCoolingState = 3) =>
          AtMost(fields.heatingThresholdTemperature,
                 fields.coolingThresholdTemperature)



(* ------------------------ message envelopes --------------------------- *)

\* The envelope of a message: everything but its Data.
Envelope(message) ==
    [SenderID |-> message.SenderID, MessageID |-> message.MessageID,
     TargetID |-> message.TargetID]

\* C25: all the posts made by one publishCommand call carry the same
\* envelope and MessageID; any two distinct commands (the schedule and the
\* hold command of one update, or commands of different updates) carry
\* different MessageIDs; every command of the accessory carries the same
\* SenderID.
C25_EnvelopePerCommand ==
    /\ \A p \in Calls : \A x, y \in hist[p].posted :
          x.cmd = y.cmd => x.body = y.body
    /\ \A p \in Calls : \A x \in hist[p].posted :
          Envelope(x.body) = Envelope(MessageOf(p, x.cmd))
    /\ \A j, k \in DOMAIN log :
          j # k => log[j].MessageID # log[k].MessageID
    /\ \A k \in DOMAIN log : log[k].SenderID = senderId

\* C25 witness: the hold command of the second update is posted for the
\* third time, after the first update has had a command posted.
C25_Witness ==
    /\ pc[2] = "hold"
    /\ pub[2].phase = "post"
    /\ pub[2].attempt = 3
    /\ Cardinality(hist[2].posted) = 2
    /\ \E k \in DOMAIN log : log[k].call = 1



(* ------- specification of telemetry arriving during the updates ------- *)

\* The user data of a zone of a thermostat in Fahrenheit, heating.
TelemetryUserData(ssp) ==
    JObj([dispUnits |-> JStr("F"), zit |-> NumString(Whole(70)),
          zitC |-> NumString(Whole(21)), hsp |-> NumString(Whole(68)),
          hspC |-> NumString(Whole(20)), csp |-> NumString(Whole(72)),
          cspC |-> NumString(Whole(22)), opMode |-> JStr("heat"),
          status |-> JStr("h"), rh |-> NumString(Whole(45)),
          fanMode |-> JStr("auto"), ssp |-> ssp])

\* The substatuses of the systems given to updateStatus: none, or one whose
\* user data has ssp absent, 0 or positive.
Telemetry ==
    {<< >>} \cup
    {<<[relay_id |-> JStr("0"), active |-> TRUE, alive |-> TRUE,
        user_data |-> JSONstringify(TelemetryUserData(ssp))]>> :
         ssp \in {JUndefined, JNum(0), JNum(3600), JNum(28800)}}

\* A poll hands the system of fresh telemetry to the accessory.
TelemetryArrives ==
    /\ \E substatuses \in Telemetry :
          /\ UpdateStatus(substatuses)
          /\ lastPositiveSsp' = ObservedSsp(lastPositiveSsp, substatuses)
    /\ UNCHANGED <<pubVars, invVars, pureVars, extVars, retVars, platVars>>

StatusNext == UpdateNext \/ TelemetryArrives

SpecStatus == UpdateInit /\ [][StatusNext]_vars



\* The schedule commands built so far carry the start time that was in
\* force when their update was invoked.
BuiltAsOnEntry(p) ==
    \A k \in DOMAIN log :
        (log[k].call = p /\ log[k].cmd = "schedule") =>
            log[k].startTime = hist[p].startTimeOnEntry

\* C26 as stated: processing telemetry never modifies the in-flight flag,
\* the last known schedule id, the schedule start time or the sender id, so
\* the commands of an update that is in flight are those it would dispatch
\* without the telemetry.
C26_TelemetryLeavesCommandState ==
    /\ [][TelemetryArrives =>
             UNCHANGED <<updateInProgress, currentZoneScheduleId,
                         currentStartTime, senderId>>]_vars
    /\ [](\A p \in Calls : BuiltAsOnEntry(p))

\* C26 amended: processing telemetry never modifies the in-flight flag, the
\* last known schedule id or the sender id, nor the commands and the start
\* time an update has already taken; it does set the schedule start time.
\* An update that took the flag on entry dispatches the commands it would
\* dispatch without the telemetry; only an update that had to wait for the
\* flag builds its schedule command with the start time set meanwhile.
C26_TelemetryLeavesBuiltCommands ==
    /\ [][TelemetryArrives =>
             UNCHANGED <<updateInProgress, currentZoneScheduleId, senderId,
                         log, locals, nextMessageId>>]_vars
    /\ [](\A p \in Calls : hist[p].blockedBy = {} => BuiltAsOnEntry(p))

\* C26 witness: telemetry has set the start time while the first update
\* awaits the post of its schedule command, built with the fallback, and the
\* second update waits for the flag.
C26_Witness ==
    /\ pc[1] = "schedule"
    /\ pub[1].phase = "post"
    /\ updateInProgress
    /\ log[1].startTime = 25200
    /\ locals[1].startTime = 25200
    /\ currentStartTime = 3600
    /\ fields # InitialFields
    /\ pc[2] = "waiting"

C34_ScheduleIdNeverKnown ==
    /\ currentZoneScheduleId = Null
    /\ \A k \in DOMAIN log :
          log[k].scheduleId = getOverrideScheduleId(PrimaryZoneId)
    /\ \A p \in Calls :
          hist[p].accepted =>
              /\ locals[p].needsHold
              /\ locals[p].targetScheduleId
                     = getOverrideScheduleId(PrimaryZoneId)
              /\ pc[p] # "schedule"
              /\ pc[p] # "settle" =>
                    \E k \in Dispatched(p) : log[k].cmd = "hold"

\* C34 witness: after telemetry has reached updateStatus and a first run
\* has applied the override (schedule and hold accepted), a second run has
\* its schedule command accepted and publishes a hold again.
C34_Witness ==
    /\ fields # InitialFields
    /\ pc[1] = "done"
    /\ outcome[1] = "resolved"
    /\ hist[1].accepted
    /\ hist[2].accepted
    /\ pc[2] = "hold"
    /\ Last(log).call = 2
    /\ Last(log).cmd = "hold"
    /\ Last(log).scheduleId = 32



(* ------------------------------ platform ------------------------------ *)

\* this.api.hap.uuid.generate(extId): one UUID for each extId
Uuid(extId) == [uuid |-> extId]

\* Line 601: config.connectionMode || 'auto'
ConnectionMode(cfg) ==
    IF cfg.connectionMode = "" THEN "auto" ELSE cfg.connectionMode

\* Faulty variant: a thermostat IP selects the local connection whatever the
\* mode is.
WantsLocalWheneverIP(cfg) ==
    ConnectionMode(cfg) = "local" \/ cfg.thermostatIP # ""

\* Line 605: connectionMode === 'local' || (connectionMode === 'auto' && thermostatIP)
WantsLocal(cfg) ==
    \/ ConnectionMode(cfg) = "local"
    \/ ConnectionMode(cfg) = "auto" /\ cfg.thermostatIP # ""

\* Lines 600-622 of the constructor.
Construct ==
    /\ platPc = "new"
    /\ isLocalConnection' = WantsLocal(config)
    /\ platPc' = IF WantsLocal(config) /\ config.thermostatIP = ""
                 THEN "failed"  \* throw new Error('thermostatIP is required ...')
                 ELSE "constructed"
    /\ UNCHANGED <<pubVars, updVars, pureVars, extVars, accVars, retVars, config,
                   accessories, accessoryHandlers, systems, restored,
                   registered, unregistered>>

\* The systems an account may hold accessories for.
CloudSystems == {"sysA", "sysB"}

\* The extId of the system of a local connection (line 977).
LocalSystem == "LCC"

\* configureAccessory(accessory), lines 664-669: Homebridge restores a cached
\* accessory, before it fires didFinishLaunching; the UUIDs it restores are
\* distinct.
ConfigureAccessory ==
    /\ platPc = "constructed"
    /\ \E extId \in CloudSystems \cup {LocalSystem} :
          /\ Uuid(extId) \notin restored
          /\ accessories' = Append(accessories, [UUID |-> Uuid(extId)])
          /\ restored' = restored \cup {Uuid(extId)}
    /\ UNCHANGED <<pubVars, updVars, pureVars, extVars, accVars, retVars, platPc, config,
                   isLocalConnection, accessoryHandlers, systems, registered,
                   unregistered>>

\* Lines 878-882: the accessories that are not the one of the local system.
AccessoriesToRemove(accs) ==
    SelectSeq(accs, LAMBDA a : a.UUID # Uuid(LocalSystem))

\* removeOldCloudAccessories(), lines 873-901
RemoveOldCloudAccessories ==
    LET toRemove == AccessoriesToRemove(accessories)
        gone == {toRemove[k].UUID : k \in DOMAIN toRemove}
    IN  /\ unregistered' = unregistered \o [k \in DOMAIN toRemove |-> toRemove[k].UUID]
        /\ accessories' = SelectSeq(accessories, LAMBDA a : a.UUID \notin gone)
        /\ accessoryHandlers' = accessoryHandlers \ gone

\* didFinishLaunching: discoverDevices() runs up to its first await, lines
\* 908-919 for a local connection and 1003-1028 otherwise.
DiscoverDevices ==
    /\ platPc = "constructed"
    /\ IF isLocalConnection
       THEN /\ RemoveOldCloudAccessories
            /\ platPc' = "discovering"
       ELSE /\ platPc' = IF config.credentials THEN "discovering" ELSE "returned"
            /\ UNCHANGED <<accessories, accessoryHandlers, unregistered>>
    /\ UNCHANGED <<pubVars, updVars, pureVars, extVars, accVars, retVars, config,
                   isLocalConnection, systems, restored, registered>>

\* The discovery ends without systems: the connection, the retrieval, the
\* certificate, the authentication or the list of systems fails, or the list
\* is empty (lines 926, 967, 1021, 1042, 1068, 1084, 1089).
DiscoverFails ==
    /\ platPc = "discovering"
    /\ platPc' = "returned"
    /\ UNCHANGED <<pubVars, updVars, pureVars, extVars, accVars, retVars, config,
                   isLocalConnection, accessories, accessoryHandlers, systems,
                   restored, registered, unregistered>>

\* The longest list of systems drawn.
MaxSystems == 2

SystemLists ==
    UNION {[1..n -> CloudSystems] : n \in 1..MaxSystems}

\* The systems are known: the one of the local connection (lines 975-987),
\* or those of the account (line 1078).
DiscoverFinds ==
    /\ platPc = "discovering"
    /\ IF isLocalConnection
       THEN systems' = <<LocalSystem>>
       ELSE systems' \in SystemLists
    /\ platPc' = "registering"
    /\ UNCHANGED <<pubVars, updVars, pureVars, extVars, accVars, retVars, config,
                   isLocalConnection, accessories, accessoryHandlers, restored,
                   registered, unregistered>>

\* Faulty variant: the accessories already held are not looked at.
ExistingAccessoryNone(accs, uuid) == << >>

\* Line 1115: this.accessories.find((accessory) => accessory.UUID === uuid),
\* as the sequence of what is found.
ExistingAccessory(accs, uuid) ==
    LET found == SelectSeq(accs, LAMBDA a : a.UUID = uuid)
    IN  IF found = << >> THEN << >> ELSE <<found[1]>>

\* registerSystem(system), lines 1113-1148, for the next system of the loop of
\* line 1095 (the only system, line 998, of a local connection).
RegisterSystem ==
    /\ platPc = "registering"
    /\ systems # << >>
    /\ LET uuid == Uuid(Head(systems)) IN
          /\ accessoryHandlers' = accessoryHandlers \cup {uuid}
          /\ IF ExistingAccessory(accessories, uuid) # << >>
             THEN UNCHANGED <<accessories, registered>>
             ELSE /\ registered' = Append(registered, uuid)
                  /\ accessories' = Append(accessories, [UUID |-> uuid])
    /\ systems' = Tail(systems)
    /\ UNCHANGED <<pubVars, updVars, pureVars, extVars, accVars, retVars, platPc, config,
                   isLocalConnection, restored, unregistered>>

\* Lines 1001 and 1100: every system is registered, the polling starts.
\* startPolling(), lines 1153-1164: pollSystems() is run at once, and the
\* timer that runs it again is set.
StartPolling ==
    /\ platPc = "registering"
    /\ systems = << >>
    /\ platPc' = "polling"
    /\ pollRuns' = pollRuns + 1
    /\ pollingInterval' = TRUE
    /\ UNCHANGED <<pubVars, updVars, pureVars, setVars, authVars, shutDown, accVars,
                   retVars, config, isLocalConnection, accessories,
                   accessoryHandlers, systems, restored, registered,
                   unregistered>>

Configs ==
    [connectionMode : {"", "auto", "local", "cloud"},
     thermostatIP : {"", "192.168.1.50"},
     credentials : BOOLEAN]

PlatformInit ==
    /\ platPc = "new"
    /\ config \in Configs
    /\ isLocalConnection = FALSE
    /\ accessories = << >>
    /\ accessoryHandlers = {}
    /\ systems = << >>
    /\ restored = {}
    /\ registered = << >>
    /\ unregistered = << >>
    /\ AccessoryIdle
    /\ RetrieveIdle
    /\ ExtIdle
    /\ PublishIdle
    /\ UpdateIdle
    /\ request = [p \in Calls |-> NoRequest]
    /\ ZoneIdle
    /\ CommandIdle
    /\ ResolveIdle

PlatformNext ==
    \/ Construct
    \/ ConfigureAccessory
    \/ DiscoverDevices
    \/ DiscoverFails
    \/ DiscoverFinds
    \/ RegisterSystem
    \/ StartPolling

SpecPlatform == PlatformInit /\ [][PlatformNext]_vars

\* C28: connectionMode "local" forces the local mode, and the construction
\* fails when thermostatIP is missing; "cloud" forces the cloud mode even
\* when thermostatIP is provided; "auto" or no value selects the local mode
\* exactly when thermostatIP is provided.
C28_ConnectionModeAsDocumented ==
    platPc # "new" =>
        /\ config.connectionMode = "local" =>
              IF config.thermostatIP = ""
              THEN platPc = "failed"
              ELSE platPc # "failed" /\ isLocalConnection
        /\ config.connectionMode = "cloud" =>
              platPc # "failed" /\ ~isLocalConnection
        /\ config.connectionMode \in {"auto", ""} =>
              /\ platPc # "failed"
              /\ isLocalConnection <=> config.thermostatIP # ""

\* C28 witness: the cloud mode is forced although a thermostat IP is
\* configured, and the systems of the account get registered.
C28_Witness ==
    /\ config.connectionMode = "cloud"
    /\ config.thermostatIP # ""
    /\ ~isLocalConnection
    /\ platPc = "polling"
    /\ registered # << >>

NoDuplicates(seq) ==
    \A j, k \in DOMAIN seq : j # k => seq[j] # seq[k]

\* C29: each accessory UUID is passed to registerPlatformAccessories at most
\* once and never for a UUID restored from the cache, and the accessories list
\* holds at most one accessory per system UUID.
C29_RegisteredOnce ==
    /\ NoDuplicates(registered)
    /\ \A k \in DOMAIN registered : registered[k] \notin restored
    /\ NoDuplicates([k \in DOMAIN accessories |-> accessories[k].UUID])

\* C29 witness: with the accessory of one system restored from the cache,
\* the account lists that system and another one; only the other one is
\* registered, and both are held.
C29_Witness ==
    /\ platPc = "polling"
    /\ restored = {Uuid("sysA")}
    /\ registered = <<Uuid("sysB")>>
    /\ Len(accessories) = 2
    /\ accessoryHandlers = {Uuid("sysA"), Uuid("sysB")}

(* ----------------------- the setters of HomeKit ----------------------- *)

\* typeof x === 'number' ? x : parseFloat(x), lines 575-576, for a setpoint
\* of the telemetry
SetpointValue(v) == IF v.t = "number" THEN Whole(v.v) ELSE v.num

\* Line 628: fanMode || userData.fanMode || 'auto'
FanModeOf(fanMode, userData) ==
    IF Truthy(fanMode)
    THEN fanMode
    ELSE IF Truthy(Get(userData, "fanMode"))
    THEN Get(userData, "fanMode")
    ELSE JStr("auto")

\* Lines 531-636 with the in-flight flag free: what updateSetpoints builds
\* from its arguments for the system it is given (this.system when it is
\* given none).  Nothing is built when that system has no zone data.
Dispatch(a, fanMode, substatuses) ==
    LET userData == getPrimaryZoneData(substatuses)
    IN  IF ~Truthy(userData)
        THEN [called |-> TRUE, built |-> FALSE]
        ELSE [called |-> TRUE, built |-> TRUE,
              hsp |-> a.hsp, csp |-> a.csp, systemMode |-> a.systemMode,
              commands |-> Commands(a, Get(userData, "dispUnits") = JStr("F"),
                                    currentZoneScheduleId),
              fanMode |-> FanModeOf(fanMode, userData)]

\* What setTargetTemperature reads at lines 295-320: the target temperature
\* and the target state, and the telemetry of the primary zone, whose
\* setpoints are whole degrees.
SetterState(value, state, userData) ==
    [value |-> value, state |-> state,
     dispUnits |-> Get(userData, "dispUnits").text,
     hsp |-> SetpointValue(Get(userData, "hsp")).n,
     csp |-> SetpointValue(Get(userData, "csp")).n,
     opMode |-> Get(userData, "opMode").text]

\* Faulty variant: the branch is taken on the mode of the telemetry.
TargetTemperatureDispatchByOpMode(value, state, substatuses) ==
    LET userData == getPrimaryZoneData(substatuses)
        a == SetterArgs(SetterState(value,
                                    mapOpModeToState(Get(userData, "opMode")),
                                    userData))
    IN  IF a.called
        THEN Dispatch(a, Get(userData, "fanMode"), substatuses)
        ELSE NotDispatched

\* Lines 295-320 of setTargetTemperature for a current system that has zone
\* data, this.targetTemperature being value and
\* this.targetHeatingCoolingState being state.
TargetTemperatureDispatch(value, state, substatuses) ==
    LET userData == getPrimaryZoneData(substatuses)
        a == SetterArgs(SetterState(value, state, userData))
    IN  IF a.called
        THEN Dispatch(a, Get(userData, "fanMode"), substatuses)
        ELSE NotDispatched

\* Lines 340-357: the system mode of a target state.
SystemModeOfState(state) ==
    CASE state = 1 -> "heat"
      [] state = 2 -> "cool"
      [] state = 3 -> "heat and cool"
      [] OTHER -> "off"

\* Lines 338-364 of setTargetHeatingCoolingState: updateSetpoints is given
\* the hsp and csp of the telemetry of this.system.
HeatingCoolingStateDispatch(state, substatuses) ==
    LET userData == getPrimaryZoneData(substatuses)
    IN  Dispatch([called |-> TRUE,
                  hsp |-> SetpointValue(Get(userData, "hsp")),
                  csp |-> SetpointValue(Get(userData, "csp")),
                  systemMode |-> SystemModeOfState(state)],
                 Get(userData, "fanMode"), substatuses)

\* isFahrenheit ? this.celsiusToFahrenheit(value) : value, lines 383, 411
InDisplayUnits(userData, value) ==
    IF Get(userData, "dispUnits") = JStr("F")
    THEN celsiusToFahrenheit(value)
    ELSE value

\* Lines 381-392 of setCoolingThresholdTemperature.
CoolingThresholdDispatch(value, substatuses) ==
    LET userData == getPrimaryZoneData(substatuses)
    IN  Dispatch([called |-> TRUE,
                  hsp |-> SetpointValue(Get(userData, "hsp")),
                  csp |-> InDisplayUnits(userData, value),
                  systemMode |->
                      mapOpModeToSystemMode(Get(userData, "opMode").text)],
                 Get(userData, "fanMode"), substatuses)

\* Lines 409-420 of setHeatingThresholdTemperature.
HeatingThresholdDispatch(value, substatuses) ==
    LET userData == getPrimaryZoneData(substatuses)
    IN  Dispatch([called |-> TRUE,
                  hsp |-> InDisplayUnits(userData, value),
                  csp |-> SetpointValue(Get(userData, "csp")),
                  systemMode |->
                      mapOpModeToSystemMode(Get(userData, "opMode").text)],
                 Get(userData, "fanMode"), substatuses)

\* private updateFanMode(fanMode), lines 748-757, for this.system with zone
\* data.
updateFanMode(fanMode, substatuses) ==
    LET userData == getPrimaryZoneData(substatuses)
    IN  Dispatch([called |-> TRUE,
                  hsp |-> SetpointValue(Get(userData, "hsp")),
                  csp |-> SetpointValue(Get(userData, "csp")),
                  systemMode |->
                      mapOpModeToSystemMode(Get(userData, "opMode").text)],
                 JStr(fanMode), substatuses)

\* Faulty variant: the thresholds of the speed are those of the speeds
\* updateStatus shows.
FanModeOfSpeedAsShown(speed) ==
    IF speed > 75 THEN "on" ELSE IF speed > 25 THEN "auto" ELSE "circulate"

\* Lines 454-459 of setFanRotationSpeed.
FanModeOfSpeed(speed) ==
    IF speed > 75 THEN "on" ELSE IF speed > 25 THEN "circulate" ELSE "auto"

\* Line 438 of setFanActive.
FanModeOfActive(fanActive) == IF fanActive THEN "on" ELSE "auto"

\* The fields of an accessory constructed for the system of the given
\* substatuses: the fan service is added when the telemetry names a fan mode
\* (line 95), and the constructor ends with updateStatus(system) (line 117).
ConstructedFields(substatuses) ==
    LET userData == getPrimaryZoneData(substatuses)
        f == [InitialFields EXCEPT
                 !.fanService = Truthy(userData)
                                /\ Truthy(Get(userData, "fanMode"))]
    IN  IF Truthy(userData) THEN StatusFields(f, userData) ELSE f

(* ------------- specification of the setters and the polls ------------- *)

\* hsp, hspC, csp, cspC as a thermostat reports them together
ReportedSetpoints ==
    {[hsp |-> 68, hspC |-> 20, csp |-> 72, cspC |-> 22],
     [hsp |-> 70, hspC |-> 21, csp |-> 75, cspC |-> 24]}

\* The user data of the primary zone of a system of the account.
SetterUserData(unit, sp, opMode, fanMode) ==
    JObj([dispUnits |-> JStr(unit), zit |-> NumString(Whole(70)),
          zitC |-> NumString(Whole(21)), hsp |-> NumString(Whole(sp.hsp)),
          hspC |-> NumString(Whole(sp.hspC)), csp |-> NumString(Whole(sp.csp)),
          cspC |-> NumString(Whole(sp.cspC)), opMode |-> JStr(opMode),
          status |-> JStr("off"), rh |-> NumString(Whole(45)),
          fanMode |-> JStr(fanMode)])

\* The user data of the thermostats: every unit, pair of setpoints and
\* mode with the fan on auto, and the other fan modes of one of them.
SetterUserDatas ==
    {SetterUserData(unit, sp, opMode, "auto") :
        unit \in {"F", "C"}, sp \in ReportedSetpoints,
        opMode \in {"off", "heat", "cool", "hc"}}
    \cup
    {SetterUserData("F", [hsp |-> 68, hspC |-> 20, csp |-> 72, cspC |-> 22],
                    "heat", fanMode) : fanMode \in {"on", "circulate"}}

\* The status.substatuses of the systems the platform hands to the
\* accessory: none, or the one of the primary zone.
SetterTelemetry ==
    {<< >>} \cup
    {<<[relay_id |-> JStr("0"), active |-> TRUE, alive |-> TRUE,
        user_data |-> JSONstringify(userData)]>> :
         userData \in SetterUserDatas}

\* The systems a refresh of setTargetTemperature finds for the accessory.
RefreshedSystems ==
    {<<[relay_id |-> JStr("0"), active |-> TRUE, alive |-> TRUE,
        user_data |-> JSONstringify(
            SetterUserData(unit,
                           [hsp |-> 68, hspC |-> 20, csp |-> 72, cspC |-> 22],
                           opMode, "auto"))]>> :
         unit \in {"F", "C"}, opMode \in {"heat", "cool", "hc"}}

\* The values HomeKit writes, in Celsius.
RequestedTemperatures == {Tenths(187), Whole(23)}

RequestedSpeeds == {0, 50, 100}

SetterInit ==
    /\ system \in SetterTelemetry
    /\ latest = system
    /\ fields = ConstructedFields(system)
    /\ currentStartTime = Null
    /\ senderId = ConstructedSenderId
    /\ lastPositiveSsp = Null
    /\ setPc = "idle"
    /\ setCall = NoSetCall
    /\ dispatched = NotDispatched
    /\ PollingIdle
    /\ AuthIdle
    /\ PublishIdle
    /\ UpdateIdle
    /\ RetrieveIdle
    /\ PlatformIdle
    /\ request = [p \in Calls |-> NoRequest]
    /\ ZoneIdle
    /\ CommandIdle
    /\ ResolveIdle

\* What no setter and no poll of the accessory touches.
SetterFrame ==
    UNCHANGED <<pubVars, invVars, pureVars, retVars, platVars, pollVars,
                authVars, system>>

\* What no setter touches.
SetterLeaves ==
    UNCHANGED <<updateInProgress, currentZoneScheduleId, currentStartTime,
                senderId, lastPositiveSsp, latest>>

\* Lines 272-281: setTargetTemperature(value) up to its first await.  One
\* call of a setter is followed.
SetTargetTemperatureCalled ==
    /\ setPc = "idle"
    /\ \E value \in RequestedTemperatures :
          /\ fields' = [fields EXCEPT !.targetTemperature = value]
          /\ setCall' = [name |-> "setTargetTemperature", value |-> value,
                         state |-> fields.targetHeatingCoolingState,
                         currentSystem |-> << >>]
    /\ setPc' = "refreshing"
    /\ dispatched' = NotDispatched
    /\ SetterFrame
    /\ SetterLeaves

\* Lines 281-320: the refresh is over, with the system of the account found
\* (refreshed) or not; setTargetTemperature goes on to updateSetpoints.
SetTargetTemperatureRefreshed ==
    /\ setPc = "refreshing"
    /\ \E found \in BOOLEAN, refreshed \in RefreshedSystems :
          LET currentSystem == IF found THEN refreshed ELSE system
          IN  /\ setCall' = [setCall EXCEPT !.currentSystem = currentSystem]
              /\ dispatched' =
                    IF ~Truthy(getPrimaryZoneData(currentSystem))
                    THEN NotDispatched
                    ELSE TargetTemperatureDispatch(fields.targetTemperature,
                             fields.targetHeatingCoolingState, currentSystem)
    /\ setPc' = "returned"
    /\ UNCHANGED fields
    /\ SetterFrame
    /\ SetterLeaves

\* A setter that gets to updateSetpoints without an await: name(value)
\* assigns its field and dispatches what `made` says for this.system.  One
\* call of a setter is followed.
PlainSetter(name, value, field, assigned, made) ==
    /\ setPc = "idle"
    /\ fields' = [fields EXCEPT ![field] = assigned]
    /\ setCall' = [name |-> name, value |-> value,
                   state |-> fields.targetHeatingCoolingState,
                   currentSystem |-> system]
    /\ dispatched' = IF ~Truthy(getPrimaryZoneData(system))
                     THEN NotDispatched
                     ELSE made
    /\ setPc' = "returned"
    /\ SetterFrame
    /\ SetterLeaves

\* setTargetHeatingCoolingState(value), lines 327-368
SetTargetHeatingCoolingState ==
    \E value \in 0..3 :
        PlainSetter("setTargetHeatingCoolingState", value,
                    "targetHeatingCoolingState", value,
                    HeatingCoolingStateDispatch(value, system))

\* setCoolingThresholdTemperature(value), lines 370-396
SetCoolingThresholdTemperature ==
    \E value \in RequestedTemperatures :
        PlainSetter("setCoolingThresholdTemperature", value,
                    "coolingThresholdTemperature", value,
                    CoolingThresholdDispatch(value, system))

\* setHeatingThresholdTemperature(value), lines 398-424
SetHeatingThresholdTemperature ==
    \E value \in RequestedTemperatures :
        PlainSetter("setHeatingThresholdTemperature", value,
                    "heatingThresholdTemperature", value,
                    HeatingThresholdDispatch(value, system))

\* setFanActive(value), lines 431-445
SetFanActive ==
    \E value \in 0..1 :
        PlainSetter("setFanActive", value, "fanActive", value = 1,
                    IF fields.fanService
                    THEN updateFanMode(FanModeOfActive(value = 1), system)
                    ELSE NotDispatched)

\* setFanRotationSpeed(value), lines 447-467
SetFanRotationSpeed ==
    \E value \in RequestedSpeeds :
        PlainSetter("setFanRotationSpeed", value, "fanRotationSpeed", value,
                    IF fields.fanService
                    THEN updateFanMode(FanModeOfSpeed(value), system)
                    ELSE NotDispatched)

\* A poll hands the system of fresh telemetry to updateStatus.  The polls
\* are followed until the setter has returned.
SetterPoll ==
    /\ setPc # "returned"
    /\ \E substatuses \in SetterTelemetry :
          /\ UpdateStatus(substatuses)
          /\ latest' = substatuses
    /\ UNCHANGED <<lastPositiveSsp, setPc, setCall, dispatched>>
    /\ SetterFrame

SetterNext ==
    \/ SetTargetTemperatureCalled
    \/ SetTargetTemperatureRefreshed
    \/ SetTargetHeatingCoolingState
    \/ SetCoolingThresholdTemperature
    \/ SetHeatingThresholdTemperature
    \/ SetFanActive
    \/ SetFanRotationSpeed
    \/ SetterPoll

SpecSetter == SetterInit /\ [][SetterNext]_vars

(* ----------------------- claims about the setters --------------------- *)

\* C32: the commands setTargetTemperature(v) dispatches are those of the
\* value v and of the target state in force when it was called, for the
\* system it refreshed, whatever a poll does while it awaits the refresh.
C32_DispatchedFromRequest ==
    (/\ setPc = "returned"
     /\ setCall.name = "setTargetTemperature"
     /\ Truthy(getPrimaryZoneData(setCall.currentSystem)))
        => dispatched = TargetTemperatureDispatch(setCall.value, setCall.state,
                                                  setCall.currentSystem)

\* The user data of the telemetry last given to updateStatus.
LatestUserData == getPrimaryZoneData(latest)

\* The setter called has had updateSetpoints build its commands.
Built(name) ==
    /\ setPc = "returned"
    /\ setCall.name = name
    /\ dispatched.called
    /\ dispatched.built

\* The period of the schedule command dispatched.
DispatchedPeriod == dispatched.commands.schedule.period

\* C33: the command of a threshold change carries the other setpoint of the
\* telemetry last given to updateStatus: setCoolingThresholdTemperature its
\* heating setpoint, setHeatingThresholdTemperature its cooling setpoint.
C33_OtherSetpointCurrent ==
    Truthy(LatestUserData) =>
        /\ Built("setCoolingThresholdTemperature") =>
              DispatchedPeriod.hsp =
                  MathRound(SetpointValue(Get(LatestUserData, "hsp")))
        /\ Built("setHeatingThresholdTemperature") =>
              DispatchedPeriod.csp =
                  MathRound(SetpointValue(Get(LatestUserData, "csp")))

\* The user data setTargetHeatingCoolingState reads: that of this.system.
SystemUserData == getPrimaryZoneData(system)

\* C35: the command of a mode change carries the setpoints of the telemetry
\* in both units: hsp and csp are its Fahrenheit setpoints, rounded, and
\* hspC and cspC its Celsius setpoints, in either display unit.
C35_ModeChangeKeepsSetpoints ==
    Built("setTargetHeatingCoolingState") =>
        /\ DispatchedPeriod.hsp =
              MathRound(SetpointValue(Get(SystemUserData, "hsp")))
        /\ DispatchedPeriod.csp =
              MathRound(SetpointValue(Get(SystemUserData, "csp")))
        /\ DispatchedPeriod.hspC =
              toFixed1(SetpointValue(Get(SystemUserData, "hspC")))
        /\ DispatchedPeriod.cspC =
              toFixed1(SetpointValue(Get(SystemUserData, "cspC")))

\* C39: the rotation speed updateStatus shows for a fan mode, written back
\* through setFanRotationSpeed, dispatches a command with that fan mode.
C39_FanModeRoundTrip ==
    \A fanMode \in {"on", "auto", "circulate"} :
        (/\ Built("setFanRotationSpeed")
         /\ setCall.value = RotationSpeedOf(JStr(fanMode)))
            => dispatched.fanMode = JStr(fanMode)

(* -------------- specification of the platform's shutdown ------------- *)

\* The pollSystems runs followed.
MaxPollRuns == 3

\* The timer of line 1161 fires: pollSystems() is run again.
PollTimerFires ==
    /\ pollingInterval
    /\ pollRuns < MaxPollRuns
    /\ pollRuns' = pollRuns + 1
    /\ UNCHANGED <<pubVars, updVars, pureVars, setVars, authVars, pollingInterval,
                   shutDown, accVars, retVars, platVars>>

\* The handler of the shutdown event, lines 641-658, which Homebridge emits
\* once, after didFinishLaunching; discoverDevices may be at an await of its
\* discovery then (registerSystem has none).
Shutdown ==
    /\ platPc \in {"discovering", "polling", "returned"}
    /\ ~shutDown
    /\ shutDown' = TRUE
    /\ pollingInterval' = FALSE
    /\ accessoryHandlers' = {}
    /\ UNCHANGED <<pubVars, updVars, pureVars, setVars, authVars, pollRuns, accVars,
                   retVars, platPc, config, isLocalConnection, accessories,
                   systems, restored, registered, unregistered>>

ShutdownNext == PlatformNext \/ PollTimerFires \/ Shutdown

SpecShutdown == PlatformInit /\ [][ShutdownNext]_vars

\* C36: once the shutdown event has been handled no pollSystems run is
\* started, wherever discoverDevices was when it was handled.
C36_NoPollAfterShutdown ==
    [][shutDown => pollRuns' = pollRuns]_vars

(* ----------------------------- AuthManager --------------------------- *)

\* The margin of lines 109 and 185: a token that expires within it is taken
\* as expired.
ExpiryMargin == 300

\* The token data login() creates once the certificate token is known,
\* lines 53-60.
CertificateOnly(certificateToken, certificateTokenExpiry) ==
    [held |-> TRUE, userToken |-> "", refreshToken |-> "", expiryTime |-> 0,
     issueTime |-> 0, certificateToken |-> certificateToken,
     certificateTokenExpiry |-> certificateTokenExpiry]

\* this.tokenData?.certificateToken, "" standing for undefined as well
CertificateTokenOf(data) == IF data.held THEN data.certificateToken ELSE ""

\* private isCertificateTokenExpired(), lines 178-186; an expiry of 0 stands
\* for undefined as well
isCertificateTokenExpired(data, time) ==
    IF ~data.held \/ data.certificateTokenExpiry = 0
    THEN TRUE
    ELSE data.certificateTokenExpiry - time < ExpiryMargin

\* Line 37: the certificate step of login() is needed.
NeedsCertificate(data, time) ==
    CertificateTokenOf(data) = "" \/ isCertificateTokenExpired(data, time)

\* Lines 53-60: the token data with the certificate token stored in it.
WithCertificate(data, certificateToken, certificateTokenExpiry) ==
    IF ~data.held
    THEN CertificateOnly(certificateToken, certificateTokenExpiry)
    ELSE [data EXCEPT !.certificateToken = certificateToken,
                      !.certificateTokenExpiry = certificateTokenExpiry]

\* private saveTokens(loginResponse), lines 138-155, for the token of the
\* response: the certificate token held is preserved.
saveTokens(data, token) ==
    [held |-> TRUE, userToken |-> token.encoded,
     refreshToken |-> token.refreshToken, expiryTime |-> token.expiryTime,
     issueTime |-> token.issueTime,
     certificateToken |-> CertificateTokenOf(data),
     certificateTokenExpiry |->
         IF data.held THEN data.certificateTokenExpiry ELSE 0]

\* private loadTokens(), lines 191-202: the content of tokens.json when it
\* exists and is JSON, null otherwise.
loadTokens(file) ==
    IF file.exists /\ file.json THEN file.data ELSE NoTokenData

\* fs.writeFileSync(tokenFile, JSON.stringify(this.tokenData, null, 2))
WrittenFile(data) == [exists |-> TRUE, json |-> TRUE, data |-> data]

\* isAuthenticated(), lines 221-223
isAuthenticated(data) == data # NoTokenData

\* Faulty variant: only a token that has expired is refreshed.
TokenExpiringNever(data, time) == data.expiryTime - time < 0

\* Line 109: this.tokenData.expiryTime - now < 300
TokenExpiring(data, time) == data.expiryTime - time < ExpiryMargin

\* Line 117: !this.tokenData || !this.tokenData.refreshToken
NoRefreshToken(data) == ~data.held \/ data.refreshToken = ""

(* ---------------- specification of one AuthManager -------------------- *)

\* The last instant followed, in seconds.
MaxNow == 900

\* The time that passes between two observations.
Tick == 300

\* The lifetimes of the tokens the service issues, from their issue.
Lifetimes == {200, 800}

\* tokens.json as an earlier run may have left it: absent, unreadable, with
\* a certificate token only, or with the tokens of a login.
StoredFiles ==
    {NoFile,
     [exists |-> TRUE, json |-> FALSE],
     WrittenFile(CertificateOnly("cert0", 900)),
     WrittenFile(saveTokens(CertificateOnly("cert0", 900),
                            [encoded |-> "user0", refreshToken |-> "refresh0",
                             expiryTime |-> 600, issueTime |-> 0]))}

\* The state after new AuthManager(client, storagePath), lines 20-24.
AuthInit ==
    /\ tokenFile \in StoredFiles
    /\ tokenData = loadTokens(tokenFile)
    /\ authNow = 0
    /\ authPc = "idle"
    /\ authResult = NoAuthResult
    /\ SetterIdle
    /\ PollingIdle
    /\ AccessoryIdle
    /\ RetrieveIdle
    /\ PlatformIdle
    /\ PublishIdle
    /\ UpdateIdle
    /\ request = [p \in Calls |-> NoRequest]
    /\ ZoneIdle
    /\ CommandIdle
    /\ ResolveIdle

AuthFrame ==
    UNCHANGED <<pubVars, updVars, pureVars, setVars, pollVars, accVars,
                retVars, platVars>>

\* What a call left behind: its name, whether it returned (the token it
\* returned, for getToken) or threw, and what it found on entry.
CallReturned(op, token, data) ==
    [op |-> op, returned |-> TRUE, token |-> token, found |-> data,
     at |-> authNow]

CallThrew(op, error, data) ==
    [op |-> op, returned |-> FALSE, error |-> error, found |-> data,
     at |-> authNow]

\* Time passes.
AuthTick ==
    /\ authNow < MaxNow
    /\ authNow' = authNow + Tick
    /\ UNCHANGED <<tokenData, tokenFile, authPc, authResult>>
    /\ AuthFrame

\* login(username, password), lines 32-38 and 69-79, up to its first await:
\* that of the certificate authentication when the certificate token is
\* missing or expiring, that of the user login otherwise.
LoginCalled ==
    /\ authPc = "idle"
    /\ authPc' = IF NeedsCertificate(tokenData, authNow) THEN "cert" ELSE "user"
    /\ UNCHANGED <<tokenData, tokenFile, authNow, authResult>>
    /\ AuthFrame

\* Lines 41-68: client.authenticate() fails or answers without a token, and
\* login() throws.
CertificateFails ==
    /\ authPc = "cert"
    /\ authPc' = "idle"
    /\ authResult' = CallThrew("login", "Certificate authentication failed",
                           tokenData)
    /\ UNCHANGED <<tokenData, tokenFile, authNow>>
    /\ AuthFrame

\* Lines 41-79: client.authenticate() answers with a certificate token, which
\* is stored and written to tokens.json; login() goes on to the user login
\* unless the file could not be written.
CertificateAnswers ==
    /\ authPc = "cert"
    /\ \E lifetime \in Lifetimes, written \in BOOLEAN :
          /\ tokenData' = WithCertificate(tokenData, "cert1", authNow + lifetime)
          /\ IF written
             THEN /\ tokenFile' = WrittenFile(tokenData')
                  /\ authPc' = "user"
                  /\ UNCHANGED authResult
             ELSE /\ authPc' = "idle"
                  /\ authResult' = CallThrew("login",
                                         "Certificate authentication failed",
                                         tokenData)
                  /\ UNCHANGED tokenFile
    /\ UNCHANGED authNow
    /\ AuthFrame

\* Lines 82-91: client.login() fails, and login() throws.
UserLoginFails ==
    /\ authPc = "user"
    /\ authPc' = "idle"
    /\ authResult' = CallThrew("login", "User login failed", tokenData)
    /\ UNCHANGED <<tokenData, tokenFile, authNow>>
    /\ AuthFrame

\* Lines 82-91: client.login() answers with the tokens of the user, which
\* saveTokens stores and writes to tokens.json.
UserLoginAnswers ==
    /\ authPc = "user"
    /\ authPc' = "idle"
    /\ \E lifetime \in Lifetimes, written \in BOOLEAN :
          /\ tokenData' = saveTokens(tokenData,
                 [encoded |-> "user1", refreshToken |-> "refresh1",
                  expiryTime |-> authNow + lifetime, issueTime |-> authNow])
          /\ IF written
             THEN /\ tokenFile' = WrittenFile(tokenData')
                  /\ authResult' = CallReturned("login", "", tokenData)
             ELSE /\ authResult' = CallThrew("login", "User login failed",
                                         tokenData)
                  /\ UNCHANGED tokenFile
    /\ UNCHANGED authNow
    /\ AuthFrame

\* clearTokens(), lines 207-217: tokens.json is unlinked, unless that fails.
ClearTokens ==
    /\ tokenData' = NoTokenData
    /\ \E unlinked \in BOOLEAN :
          tokenFile' = IF unlinked THEN NoFile ELSE tokenFile

\* refreshToken(), lines 116-131, called as op: it throws, having cleared
\* the tokens when a refresh token was held.
RefreshTokenAs(op) ==
    IF NoRefreshToken(tokenData)
    THEN /\ authResult' = CallThrew(op, "No refresh token available", tokenData)
         /\ UNCHANGED <<tokenData, tokenFile>>
    ELSE /\ ClearTokens
         /\ authResult' = CallThrew(op, "Token refresh failed", tokenData)

\* getToken(), lines 102-114
GetToken ==
    /\ IF ~tokenData.held
       THEN /\ authResult' = CallThrew("getToken", "Not authenticated", tokenData)
            /\ UNCHANGED <<tokenData, tokenFile>>
       ELSE IF TokenExpiring(tokenData, authNow)
       THEN RefreshTokenAs("getToken")
       ELSE /\ authResult' = CallReturned("getToken", tokenData.userToken,
                                      tokenData)
            /\ UNCHANGED <<tokenData, tokenFile>>
    /\ UNCHANGED <<authNow, authPc>>
    /\ AuthFrame

\* refreshToken(), lines 116-131, called from outside
RefreshToken ==
    /\ RefreshTokenAs("refreshToken")
    /\ UNCHANGED <<authNow, authPc>>
    /\ AuthFrame

AuthNext ==
    \/ AuthTick
    \/ LoginCalled
    \/ CertificateFails
    \/ CertificateAnswers
    \/ UserLoginFails
    \/ UserLoginAnswers
    \/ GetToken
    \/ RefreshToken

SpecAuth == AuthInit /\ [][AuthNext]_vars

\* C37: whenever isAuthenticated() is true, a user token that is not empty
\* is held.
C37_AuthenticatedHoldsUserToken ==
    isAuthenticated(tokenData) => (tokenData.held /\ tokenData.userToken # "")

\* C38: getToken returns the user token held only when it has at least 300
\* seconds left; when the token held is expiring the call throws, and when a
\* refresh token was held with it no token data is held afterwards, so that
\* isAuthenticated() is false.
C38_NoExpiringTokenReturned ==
    [][GetToken =>
          /\ authResult'.op = "getToken"
          /\ authResult'.returned =>
                /\ tokenData.held
                /\ authResult'.token = tokenData.userToken
                /\ tokenData.expiryTime - authNow >= 300
          /\ (tokenData.held /\ tokenData.expiryTime - authNow < 300) =>
                /\ ~authResult'.returned
                /\ tokenData.refreshToken # "" => ~isAuthenticated(tokenData')
       ]_vars

\* C38 witness: a login has succeeded, its token has come within 300 seconds
\* of its expiry, and getToken has thrown and left no token data.
C38_Witness ==
    /\ authResult.op = "getToken"
    /\ ~authResult.returned
    /\ authResult.found.held
    /\ authResult.found.userToken = "user1"
    /\ authResult.found.refreshToken = "refresh1"
    /\ authResult.found.expiryTime - authResult.at < 300
    /\ authResult.found.expiryTime > authResult.at
    /\ authResult.found.issueTime < authResult.at
    /\ ~isAuthenticated(tokenData)

====
